---- MODULE Spec2Model ----
(***************************************************************************)
(* json2csharp: the paste command (extension.ts), convertJsonToCSharp and  *)
(* its text post-processing stages (converter.ts).                         *)
(*                                                                         *)
(* Text representation.  A text is a sequence of tokens.  A token is a     *)
(* maximal run of non-whitespace characters, written as the sequence of    *)
(* its atoms: an atom is either a maximal run of word characters (\w+, an  *)
(* identifier or keyword) or a piece of punctuation.  A line break is the  *)
(* token NL.  Two neighbouring tokens that are not NL are separated by     *)
(* blanks on one line; indentation is not represented.  With this, the     *)
(* regular expressions of converter.ts read as follows: \s+ and \s* between*)
(* two tokens skip any number of NL tokens, \S+ is one whole token, \w+ is *)
(* one word atom, \b holds at both ends of a word atom, \n is one NL.      *)
(***************************************************************************)
EXTENDS Integers, Sequences, FiniteSets, TLC

VARIABLES
    settings,   \* the json2csharp workspace configuration of the running call
    doc,        \* the clipboard document: the root class's properties
    via,        \* who called convertJsonToCSharp: "paste" or "api"
    args,       \* the arguments of the running convertJsonToCSharp call
    pc,         \* the position of the call
    output,     \* the local variable output of convertJsonToCSharp
    inserted,   \* the text the paste command inserted into the editor
    input,      \* the argument of a function that is called on its own
    result,     \* the value a function called on its own returned
    editor,     \* whether vscode.window.activeTextEditor is defined
    clipboard,  \* the text on the clipboard
    trace,      \* the calls the paste command made and the messages it showed
    quicktypeCore,  \* converter.ts: the cached module quicktype-core, or "null"
    csharpLang,     \* converter.ts: the cached C# language module, or "null"
    requires,   \* how often require(...) was evaluated, per module
    calls,      \* the position of each call of convertJsonToCSharp in flight
    files,      \* the directories that hold a project file, and their files
    currentDir  \* namespace.ts: the local variable currentDir

\* the variables of the paste command's surroundings
commandVars == <<editor, clipboard, trace>>

\* the module cache of converter.ts
cacheVars == <<quicktypeCore, csharpLang, requires>>

\* the variables of a function called on its own
callVars == <<result, files, currentDir>>

vars == <<settings, doc, via, args, pc, output, inserted, input, result,
          editor, clipboard, trace, quicktypeCore, csharpLang, requires, calls,
          files, currentDir>>

\* The largest number of properties of the root class in a modelled input.
MaxFields == 2

NL == <<"\n">>

Punct == {"<", ">", ",", "[]", "?", ";", "{", "}", "(", ")", "[", "]", "\"",
          "=", "!", ".", ":", "-", "\n"}

\* an atom made of \w characters only
IsWordAtom(a) == a \notin Punct

\* a token that is exactly \w+
IsWord(t) == Len(t) = 1 /\ IsWordAtom(t[1])

\* String.prototype.toLowerCase on the atoms of the vocabulary
toLowerCase(a) ==
    CASE a = "Id"      -> "id"
      [] a = "UserId"  -> "userid"
      [] a = "Tags"    -> "tags"
      [] a = "Scores"  -> "scores"
      [] a = "Age"     -> "age"
      [] a = "Address" -> "address"
      [] a = "Meta"    -> "meta"
      [] a = "ListInt" -> "listint"
      [] a = "List"    -> "list"
      [] a = "Street"  -> "street"
      [] a = "Root"    -> "root"
      [] a = "Class"   -> "class"
      [] a = "Models"  -> "models"
      [] a = "Api"     -> "api"
      [] a = "V1"      -> "v1"
      [] a = "App"     -> "app"
      [] a = "Acme"    -> "acme"
      [] a = "Core"    -> "core"
      [] OTHER         -> a

\* the last token of a non-empty sequence / a text without its last n tokens
Last(s) == s[Len(s)]
Front(s, n) == SubSeq(s, 1, Len(s) - n)

(***************************************************************************)
(* The inferred schema and its canonical rendering (quicktype).            *)
(***************************************************************************)

\* Inferred property types: <<"prim", t>>, <<"cls", name>>, <<"opt", T>>
\* (nullable value type T?), <<"arr", T>>, <<"map", T>> (inferMaps: true).
TLong    == <<"prim", "long">>
TString  == <<"prim", "string">>
TObject  == <<"prim", "object">>

\* The properties an input document may have: JSON key (as atoms), derived
\* C# name, inferred type.
FieldPool ==
    << [key |-> <<"id">>,      name |-> "Id",      type |-> TLong],
       [key |-> <<"user_id">>, name |-> "UserId",  type |-> TString],
       [key |-> <<"tags">>,    name |-> "Tags",    type |-> <<"arr", TString>>],
       [key |-> <<"scores">>,  name |-> "Scores",  type |-> <<"map", TLong>>],
       [key |-> <<"age">>,     name |-> "Age",     type |-> <<"opt", TLong>>],
       [key |-> <<"address">>, name |-> "Address", type |-> <<"cls", "Address">>],
       [key |-> <<"meta">>,    name |-> "Meta",    type |-> TObject],
       [key |-> <<"List", "<", "int", ">">>, name |-> "ListInt",
                                type |-> <<"arr", <<"arr", TLong>>>>] >>

\* The class a property of type Address refers to.
AddressFields == << [key |-> <<"street">>, name |-> "Street", type |-> TString] >>

\* strictly increasing index sequences of length <= n over 1..Len(FieldPool)
RECURSIVE IndexSeqs(_)
IndexSeqs(n) ==
    IF n = 0 THEN { <<>> }
    ELSE LET shorter == IndexSeqs(n - 1)
         IN shorter \cup
            { Append(s, i) : s \in { x \in shorter : Len(x) = n - 1 },
                             i \in 1..Len(FieldPool) }

Increasing(s) == \A i \in 1..(Len(s) - 1) : s[i] < s[i + 1]

\* the documents of the model: the properties of the root class, as indices
\* into FieldPool
Inputs == { x \in IndexSeqs(MaxFields) : Increasing(x) }

\* a property whose JSON key reads like a property declaration:
\* {"public partial class { get; set; }": 1}
DeclarationKeyField ==
    [key |-> <<"public", " ", "partial", " ", "class", " ", "{", " ",
               "get", ";", " ", "set", ";", " ", "}">>,
     name |-> "PublicPartialClassGetSet", type |-> TLong]

\* the index that stands for DeclarationKeyField in a document
DeclarationKeyIndex == Len(FieldPool) + 1

Fields(d) == [i \in 1..Len(d) |->
                 IF d[i] = DeclarationKeyIndex THEN DeclarationKeyField
                 ELSE FieldPool[d[i]]]

CollectionTypes == {"Array", "List", "IList", "IEnumerable", "IReadOnlyList"}
TypeStyles      == {"class", "recordPositional", "recordProperties"}
NullableStyles  == {"none", "nullable", "defaults"}
Frameworks      == {"none", "SystemTextJson", "NewtonsoftJson"}

\* the atoms of a rendered type; " " marks the blank quicktype prints after
\* the comma of Dictionary<string, T>
RECURSIVE TypeAtoms(_, _)
TypeAtoms(ty, arrayType) ==
    CASE ty[1] = "prim" -> <<ty[2]>>
      [] ty[1] = "cls"  -> <<ty[2]>>
      [] ty[1] = "opt"  -> TypeAtoms(ty[2], arrayType) \o <<"?">>
      [] ty[1] = "arr"  -> IF arrayType = "array"
                           THEN TypeAtoms(ty[2], arrayType) \o <<"[]">>
                           ELSE <<"List", "<">> \o TypeAtoms(ty[2], arrayType) \o <<">">>
      [] ty[1] = "map"  -> <<"Dictionary", "<", "string", ",", " ">>
                           \o TypeAtoms(ty[2], arrayType) \o <<">">>

\* split atoms into tokens at the blanks
RECURSIVE SplitTokens(_, _)
SplitTokens(atoms, cur) ==
    IF atoms = <<>> THEN (IF cur = <<>> THEN <<>> ELSE <<cur>>)
    ELSE IF atoms[1] = " "
         THEN (IF cur = <<>> THEN <<>> ELSE <<cur>>) \o SplitTokens(Tail(atoms), <<>>)
         ELSE SplitTokens(Tail(atoms), Append(cur, atoms[1]))

TypeTokens(ty, arrayType) == SplitTokens(TypeAtoms(ty, arrayType), <<>>)

AttributeName(framework) ==
    IF framework = "SystemTextJson" THEN "JsonPropertyName" ELSE "JsonProperty"

\* [JsonPropertyName("key")]
AttributeToken(attr, key) == <<"[", attr, "(", "\"">> \o key \o <<"\"", ")", "]">>

PropertyTail == << <<"{">>, <<"get", ";">>, <<"set", ";">>, <<"}">> >>

\* one property: the attribute line (framework renderers) and the property line
RenderProperty(f, framework, arrayType) ==
    (IF framework = "none" THEN <<>>
     ELSE SplitTokens(AttributeToken(AttributeName(framework), f.key), <<>>) \o <<NL>>)
    \o << <<"public">> >> \o TypeTokens(f.type, arrayType) \o << <<f.name>> >>
    \o PropertyTail \o <<NL>>

\* the properties of a class; the framework renderers leave a blank line
\* between two properties
RECURSIVE RenderProperties(_, _, _)
RenderProperties(fields, framework, arrayType) ==
    IF fields = <<>> THEN <<>>
    ELSE RenderProperty(fields[1], framework, arrayType)
         \o (IF framework # "none" /\ Len(fields) > 1 THEN <<NL>> ELSE <<>>)
         \o RenderProperties(Tail(fields), framework, arrayType)

RenderClass(name, fields, framework, arrayType) ==
    << <<"public">>, <<"partial">>, <<"class">>, <<name>>, NL, <<"{">>, NL >>
    \o RenderProperties(fields, framework, arrayType)
    \o << <<"}">>, NL >>

HasAddress(fields) == \E i \in 1..Len(fields) : fields[i].type[1] = "cls"

\* result.lines.join('\n') of the quicktype run: the root class, then the
\* classes it refers to, with namespace and usings suppressed
Render(rootName, fields, framework, arrayType) ==
    RenderClass(rootName, fields, framework, arrayType)
    \o (IF HasAddress(fields)
        THEN <<NL>> \o RenderClass("Address", AddressFields, framework, arrayType)
        ELSE <<>>)

(***************************************************************************)
(* converter.ts: the post-processing stages.                               *)
(***************************************************************************)

TokAt(text, i) == IF i >= 1 /\ i <= Len(text) THEN text[i] ELSE <<>>

\* the first index >= i that holds a token other than NL (\s* and \s+
\* skip line breaks); Len(text) + 1 when there is none
RECURSIVE NextTok(_, _)
NextTok(text, i) ==
    IF i > Len(text) THEN Len(text) + 1
    ELSE IF text[i] = NL THEN NextTok(text, i + 1) ELSE i

AttributeNames == {"JsonPropertyName", "JsonProperty"}

\* \[(?:JsonPropertyName|JsonProperty)\("(\w+)"\)\]  as a whole token
IsWordKeyAttribute(t) ==
    /\ Len(t) = 8
    /\ t[1] = "[" /\ t[2] \in AttributeNames /\ t[3] = "(" /\ t[4] = "\""
    /\ IsWordAtom(t[5])
    /\ t[6] = "\"" /\ t[7] = ")" /\ t[8] = "]"

\* \[(?:JsonPropertyName|JsonProperty)\("[^"]*"\)\]  as a whole token
IsAttribute(t) ==
    /\ Len(t) >= 7
    /\ t[1] = "[" /\ t[2] \in AttributeNames /\ t[3] = "(" /\ t[4] = "\""
    /\ \A k \in 5..(Len(t) - 3) : t[k] # "\""
    /\ t[Len(t) - 2] = "\"" /\ t[Len(t) - 1] = ")" /\ t[Len(t)] = "]"

AttributeKey(t) == SubSeq(t, 5, Len(t) - 3)

\* redundantAttrRegex at token i:
\*   ^[ \t]*\[Attr\("(\w+)"\)\]\n([ \t]*public\s+\S+\s+(\w+)\s*\{)
\* ty is the \S+ token, nm the token that starts with (\w+), and the match
\* ends with the "{" that follows the name.
RedundantAt(text, i) ==
    LET ty == NextTok(text, i + 3)
        nm == NextTok(text, ty + 1)
        br == NextTok(text, nm + 1)
        nameTok == TokAt(text, nm)
        glued == Len(nameTok) >= 2 /\ nameTok[2] = "{"
    IN  [ok |-> /\ (i = 1 \/ TokAt(text, i - 1) = NL)
                /\ IsWordKeyAttribute(TokAt(text, i))
                /\ TokAt(text, i + 1) = NL
                /\ TokAt(text, i + 2) = <<"public">>
                /\ ty <= Len(text)
                /\ nameTok # <<>> /\ IsWordAtom(nameTok[1])
                /\ \/ glued
                   \/ Len(nameTok) = 1 /\ TokAt(text, br) # <<>>
                                       /\ TokAt(text, br)[1] = "{",
         key  |-> IF IsWordKeyAttribute(TokAt(text, i)) THEN TokAt(text, i)[5] ELSE "",
         name |-> IF nameTok # <<>> THEN nameTok[1] ELSE "",
         end  |-> IF glued THEN nm ELSE br]

RECURSIVE RemoveRedundantFrom(_, _)
RemoveRedundantFrom(text, i) ==
    IF i > Len(text) THEN <<>>
    ELSE LET m == RedundantAt(text, i)
         IN IF m.ok
            THEN (IF toLowerCase(m.key) = toLowerCase(m.name)
                  THEN SubSeq(text, i + 2, m.end)     \* the property line alone
                  ELSE SubSeq(text, i, m.end))        \* the match, unchanged
                 \o RemoveRedundantFrom(text, m.end + 1)
            ELSE <<text[i]>> \o RemoveRedundantFrom(text, i + 1)

\* the same replacement without the g flag: only the first match is handled
RECURSIVE RemoveFirstRedundantFrom(_, _)
RemoveFirstRedundantFrom(text, i) ==
    IF i > Len(text) THEN <<>>
    ELSE LET m == RedundantAt(text, i)
         IN IF m.ok
            THEN (IF toLowerCase(m.key) = toLowerCase(m.name)
                  THEN SubSeq(text, i + 2, m.end)
                  ELSE SubSeq(text, i, m.end))
                 \o SubSeq(text, m.end + 1, Len(text))
            ELSE <<text[i]>> \o RemoveFirstRedundantFrom(text, i + 1)

removeRedundantAttributesFirstOnly(code) == RemoveFirstRedundantFrom(code, 1)

removeRedundantAttributes(code) == RemoveRedundantFrom(code, 1)

\* token.replace(/\bList</g, target + '<')
RECURSIVE ReplaceListIn(_, _)
ReplaceListIn(tok, target) ==
    IF tok = <<>> THEN <<>>
    ELSE IF Len(tok) >= 2 /\ tok[1] = "List" /\ tok[2] = "<"
         THEN <<target, "<">> \o ReplaceListIn(SubSeq(tok, 3, Len(tok)), target)
         ELSE <<tok[1]>> \o ReplaceListIn(Tail(tok), target)

\* the same switch with the case 'IList' missing
convertCollectionTypeNoIList(code, collectionType) ==
    IF collectionType \in {"IEnumerable", "IReadOnlyList"}
    THEN [i \in 1..Len(code) |-> ReplaceListIn(code[i], collectionType)]
    ELSE code

convertCollectionType(code, collectionType) ==
    IF collectionType \in {"IList", "IEnumerable", "IReadOnlyList"}
    THEN [i \in 1..Len(code) |-> ReplaceListIn(code[i], collectionType)]
    ELSE code

\* the same set with 'long' forgotten
VALUE_TYPES_NoLong == {"bool", "byte", "sbyte", "short", "ushort", "int", "uint",
                       "ulong", "float", "double", "decimal", "char",
                       "DateTime", "DateTimeOffset", "TimeSpan", "Guid"}

VALUE_TYPES == {"bool", "byte", "sbyte", "short", "ushort", "int", "uint",
                "long", "ulong", "float", "double", "decimal", "char",
                "DateTime", "DateTimeOffset", "TimeSpan", "Guid"}

\* propertyRegex at token i:  public\s+(\S+)\s+(\w+)\s*\{\s*get;\s*set;\s*\}
\* The regex has no anchors: the match may begin inside a token that ends
\* with public and end inside a token that begins with "}".
PropertyAt(text, i) ==
    LET ty == NextTok(text, i + 1)
        nm == NextTok(text, ty + 1)
        br == NextTok(text, nm + 1)
        gt == NextTok(text, br + 1)
        st == NextTok(text, gt + 1)
        en == NextTok(text, st + 1)
    IN  [ok |-> /\ TokAt(text, i) # <<>> /\ Last(TokAt(text, i)) = "public"
                /\ ty <= Len(text)
                /\ IsWord(TokAt(text, nm))
                /\ TokAt(text, br) = <<"{">>
                /\ TokAt(text, gt) = <<"get", ";">>
                /\ TokAt(text, st) = <<"set", ";">>
                /\ TokAt(text, en) # <<>> /\ TokAt(text, en)[1] = "}",
         type |-> TokAt(text, ty),
         name |-> TokAt(text, nm),
         end  |-> en]

IndexOf(tok, a) == IF \E k \in 1..Len(tok) : tok[k] = a
                   THEN CHOOSE k \in 1..Len(tok) :
                          tok[k] = a /\ \A j \in 1..(k - 1) : tok[j] # a
                   ELSE 0
LastIndexOf(tok, a) == IF \E k \in 1..Len(tok) : tok[k] = a
                       THEN CHOOSE k \in 1..Len(tok) :
                              tok[k] = a /\ \A j \in (k + 1)..Len(tok) : tok[j] # a
                       ELSE 0

\* type.replace(/<.*>/, ''): from the first "<" to the last ">" after it
baseType(type) ==
    LET lt == IndexOf(type, "<")
        gt == LastIndexOf(type, ">")
    IN IF lt > 0 /\ gt > lt
       THEN SubSeq(type, 1, lt - 1) \o SubSeq(type, gt + 1, Len(type))
       ELSE type

endsWith(type, a) == type # <<>> /\ Last(type) = a
startsWith(type, a) == Len(type) >= 2 /\ type[1] = a /\ type[2] = "<"

\* VALUE_TYPES.has(baseType)
IsValueType(type) == Len(baseType(type)) = 1 /\ baseType(type)[1] \in VALUE_TYPES

\* the tokens of a replaced match: what precedes the match in its first token
\* and what follows it in its last token stay where they are
Replaced(text, i, m, tokens) ==
    <<Front(text[i], 1) \o tokens[1]>> \o SubSeq(tokens, 2, Len(tokens) - 1)
    \o <<Last(tokens) \o Tail(text[m.end])>>

\* the callback of addNullableAnnotations: the tokens that replace a match
NullableReplacement(text, i, m) ==
    IF endsWith(m.type, "?") THEN SubSeq(text, i, m.end)
    ELSE IF IsValueType(m.type) THEN SubSeq(text, i, m.end)
    ELSE Replaced(text, i, m,
                  << <<"public">>, m.type \o <<"?">>, m.name >> \o PropertyTail)

RECURSIVE AddNullableFrom(_, _)
AddNullableFrom(text, i) ==
    IF i > Len(text) THEN <<>>
    ELSE LET m == PropertyAt(text, i)
         IN IF m.ok
            THEN NullableReplacement(text, i, m) \o AddNullableFrom(text, m.end + 1)
            ELSE <<text[i]>> \o AddNullableFrom(text, i + 1)

addNullableAnnotations(code) == AddNullableFrom(code, 1)

\* the initializer addDefaultValues picks for a type, as tokens
defaultValue(type) ==
    IF type = <<"string">> THEN << <<"string", ".", "Empty", ";">> >>
    ELSE IF \/ startsWith(type, "IEnumerable") \/ startsWith(type, "List")
            \/ startsWith(type, "IList") \/ startsWith(type, "IReadOnlyList")
            \/ endsWith(type, "[]")
         THEN << <<"[]", ";">> >>
    ELSE IF type = <<"object">> THEN << <<"new">>, <<"object", "(", ")", ";">> >>
    ELSE << <<"default", "!", ";">> >>

\* the same callback without the test for an already nullable type
DefaultReplacementNoNullableSkip(text, i, m) ==
    IF IsValueType(m.type) THEN SubSeq(text, i, m.end)
    ELSE Replaced(text, i, m,
                  << <<"public">>, m.type, m.name >> \o PropertyTail
                  \o << <<"=">> >> \o defaultValue(m.type))

\* the callback of addDefaultValues: the tokens that replace a match
DefaultReplacement(text, i, m) ==
    IF endsWith(m.type, "?") THEN SubSeq(text, i, m.end)
    ELSE IF IsValueType(m.type) THEN SubSeq(text, i, m.end)
    ELSE Replaced(text, i, m,
                  << <<"public">>, m.type, m.name >> \o PropertyTail
                  \o << <<"=">> >> \o defaultValue(m.type))

RECURSIVE AddDefaultsFrom(_, _)
AddDefaultsFrom(text, i) ==
    IF i > Len(text) THEN <<>>
    ELSE LET m == PropertyAt(text, i)
         IN IF m.ok
            THEN DefaultReplacement(text, i, m) \o AddDefaultsFrom(text, m.end + 1)
            ELSE <<text[i]>> \o AddDefaultsFrom(text, i + 1)

addDefaultValues(code) == AddDefaultsFrom(code, 1)

\* output.replace(/public\s+partial\s+class/g, 'public class')
RECURSIVE RemovePartialFrom(_, _)
RemovePartialFrom(text, i) ==
    IF i > Len(text) THEN <<>>
    ELSE LET pa == NextTok(text, i + 1)
             cl == NextTok(text, pa + 1)
         IN IF /\ Last(text[i]) = "public"
               /\ TokAt(text, pa) = <<"partial">>
               /\ TokAt(text, cl) # <<>> /\ TokAt(text, cl)[1] = "class"
            THEN << text[i], text[cl] >> \o RemovePartialFrom(text, cl + 1)
            ELSE <<text[i]>> \o RemovePartialFrom(text, i + 1)

\* the same replacement without the g flag: the first match only
RECURSIVE RemoveFirstPartialFrom(_, _)
RemoveFirstPartialFrom(text, i) ==
    IF i > Len(text) THEN <<>>
    ELSE LET pa == NextTok(text, i + 1)
             cl == NextTok(text, pa + 1)
         IN IF /\ Last(text[i]) = "public"
               /\ TokAt(text, pa) = <<"partial">>
               /\ TokAt(text, cl) # <<>> /\ TokAt(text, cl)[1] = "class"
            THEN << text[i], text[cl] >> \o SubSeq(text, cl + 1, Len(text))
            ELSE <<text[i]>> \o RemoveFirstPartialFrom(text, i + 1)

removePartialFirstOnly(code) == RemoveFirstPartialFrom(code, 1)
removePartial(code) == RemovePartialFrom(code, 1)

\* output.replace(/public\s+class\s+(\w+)/g, 'public record $1').  The
\* expression has no anchor: "public" may be the end of a token and \w+ the
\* beginning of one.
RECURSIVE ToRecordPropertiesFrom(_, _)
ToRecordPropertiesFrom(text, i) ==
    IF i > Len(text) THEN <<>>
    ELSE LET cl == NextTok(text, i + 1)
             nm == NextTok(text, cl + 1)
         IN IF /\ Last(text[i]) = "public"
               /\ TokAt(text, cl) = <<"class">>
               /\ TokAt(text, nm) # <<>> /\ IsWordAtom(TokAt(text, nm)[1])
            THEN << text[i], <<"record">> >>
                 \o (IF Len(text[nm]) = 1
                     THEN <<text[nm]>> \o ToRecordPropertiesFrom(text, nm + 1)
                     ELSE ToRecordPropertiesFrom(text, nm))
            ELSE <<text[i]>> \o ToRecordPropertiesFrom(text, i + 1)

convertToRecordProperties(code) == ToRecordPropertiesFrom(code, 1)

\* the last index e >= i with text[e] = NL and "}" opening the next line
\* (a greedy class body); 0 when there is none
RECURSIVE ClassEndGreedy(_, _)
ClassEndGreedy(text, i) ==
    IF i >= Len(text) THEN 0
    ELSE LET later == ClassEndGreedy(text, i + 1)
         IN IF later > 0 THEN later
            ELSE IF text[i] = NL /\ text[i + 1][1] = "}" THEN i ELSE 0

\* the first index e >= i with text[e] = NL and "}" opening the next line
\* (the \n\} that ends the lazy class body); 0 when there is none
RECURSIVE ClassEnd(_, _)
ClassEnd(text, i) ==
    IF i >= Len(text) THEN 0
    ELSE IF text[i] = NL /\ text[i + 1][1] = "}" THEN i
    ELSE ClassEnd(text, i + 1)

\* classRegex at token i:  public\s+class\s+(\w+)\s*\{([\s\S]*?)\n\}
ClassAt(text, i) ==
    LET cl == NextTok(text, i + 1)
        nm == NextTok(text, cl + 1)
        br == NextTok(text, nm + 1)
        en == ClassEnd(text, br + 1)
    IN  [ok |-> /\ TokAt(text, i) = <<"public">>
                /\ TokAt(text, cl) = <<"class">>
                /\ IsWord(TokAt(text, nm))
                /\ TokAt(text, br) = <<"{">>
                /\ en > 0
                /\ TokAt(text, en + 1) = <<"}">>,
         className |-> TokAt(text, nm),
         body |-> IF en > 0 THEN SubSeq(text, br + 1, en - 1) ELSE <<>>,
         end  |-> en + 1]

\* the first index >= i of a token that holds ";" ; Len(text) + 1 when none
RECURSIVE NextSemicolon(_, _)
NextSemicolon(text, i) ==
    IF i > Len(text) THEN Len(text) + 1
    ELSE IF \E k \in 1..Len(text[i]) : text[i][k] = ";" THEN i
    ELSE NextSemicolon(text, i + 1)

\* where the search resumes after a property that ends at token en: behind
\* the optional initializer  (?:\s*=\s*[^;]+)?
AfterInitializer(body, en) ==
    LET eq == NextTok(body, en + 1)
    IN IF TokAt(body, en) = <<"}">> /\ TokAt(body, eq) = <<"=">>
       THEN NextSemicolon(body, eq + 1) + 1 ELSE en + 1

\* one positional parameter, as tokens
Parameter(attr, type, name) ==
    (IF attr = <<>> THEN <<>>
     ELSE << <<"[", "property", ":">> >>
          \o SplitTokens(<<attr[2], "(", "\"">> \o AttributeKey(attr)
                         \o <<"\"", ")", "]">>, <<>>))
    \o <<type, name>>

\* the atoms of the tokens j..k, with a blank between two tokens
RECURSIVE JoinTokens(_, _, _)
JoinTokens(text, j, k) ==
    IF j > k THEN <<>>
    ELSE IF j = k THEN text[j]
    ELSE text[j] \o <<" ">> \o JoinTokens(text, j + 1, k)

\* the first token at or after k that holds a double quote from atom `from` on
\* (0 when there is none): where [^"]* ends
RECURSIVE QuoteTok(_, _, _)
QuoteTok(text, k, from) ==
    IF k > Len(text) THEN 0
    ELSE IF \E q \in from..Len(text[k]) : text[k][q] = "\"" THEN k
    ELSE QuoteTok(text, k + 1, 1)

\* the optional prefix of propertyRegex at token j:
\*   \[(?:JsonPropertyName|JsonProperty)\("[^"]*"\)\]\s*\n\s*
\* attr is the attribute with the blanks of its key, next the token behind
\* the prefix
AttributePrefixAt(body, j) ==
    LET opens == /\ Len(body[j]) >= 4
                 /\ body[j][1] = "[" /\ body[j][2] \in AttributeNames
                 /\ body[j][3] = "(" /\ body[j][4] = "\""
        k == IF opens THEN QuoteTok(body, j, 5) ELSE 0
        attr == JoinTokens(body, j, k)
    IN [ok |-> k > 0 /\ IsAttribute(attr) /\ TokAt(body, k + 1) = NL,
        attr |-> attr,
        next |-> NextTok(body, k + 1)]

\* the while loop over propertyRegex.exec(body): the parameters, in order
RECURSIVE Parameters(_, _)
Parameters(body, j) ==
    IF j > Len(body) THEN <<>>
    ELSE LET prefix == AttributePrefixAt(body, j)
             withAttr == IF prefix.ok /\ TokAt(body, prefix.next) = <<"public">>
                         THEN PropertyAt(body, prefix.next)
                         ELSE [ok |-> FALSE]
             plain == PropertyAt(body, j)
         IN IF withAttr.ok
            THEN <<Parameter(prefix.attr, withAttr.type, withAttr.name)>>
                 \o Parameters(body, AfterInitializer(body, withAttr.end))
            ELSE IF plain.ok
            THEN <<Parameter(<<>>, plain.type, plain.name)>>
                 \o Parameters(body, AfterInitializer(body, plain.end))
            ELSE Parameters(body, j + 1)

\* parameters.join(', ') followed by ");"
RECURSIVE JoinParameters(_)
JoinParameters(ps) ==
    IF Len(ps) = 1
    THEN Front(ps[1], 1) \o <<Last(ps[1]) \o <<")", ";">>>>
    ELSE Front(ps[1], 1) \o <<Last(ps[1]) \o <<",">>>> \o JoinParameters(Tail(ps))

\* `public record ${className}(${parameters.join(', ')});`
RecordLine(className, ps) ==
    LET joined == JoinParameters(ps)
    IN << <<"public">>, <<"record">>, className \o <<"(">> \o joined[1] >>
       \o Tail(joined)

RECURSIVE ToPositionalFrom(_, _)
ToPositionalFrom(text, i) ==
    IF i > Len(text) THEN <<>>
    ELSE LET m == ClassAt(text, i)
         IN IF m.ok
            THEN LET ps == Parameters(m.body, 1)
                 IN (IF ps = <<>> THEN SubSeq(text, i, m.end)
                     ELSE RecordLine(m.className, ps))
                    \o ToPositionalFrom(text, m.end + 1)
            ELSE <<text[i]>> \o ToPositionalFrom(text, i + 1)

convertToPositionalRecords(code) == ToPositionalFrom(code, 1)

\* `namespace ${namespace};\n\n${output}`
prependNamespace(code, namespace) ==
    << <<"namespace">>, namespace \o <<";">>, NL, NL >> \o code

\* the two import lines exchanged
usingStatementExchanged(serializationAttributes) ==
    IF serializationAttributes = "SystemTextJson"
    THEN << <<"using">>, <<"Newtonsoft", ".", "Json", ";">> >>
    ELSE << <<"using">>, <<"System", ".", "Text", ".", "Json", ".", "Serialization", ";">> >>

usingStatement(serializationAttributes) ==
    IF serializationAttributes = "SystemTextJson"
    THEN << <<"using">>, <<"System", ".", "Text", ".", "Json", ".", "Serialization", ";">> >>
    ELSE << <<"using">>, <<"Newtonsoft", ".", "Json", ";">> >>

\* the using line put behind the namespace line and its blank line
prependUsingAfterNamespace(code, serializationAttributes) ==
    SubSeq(code, 1, 4) \o usingStatement(serializationAttributes) \o <<NL, NL>>
    \o SubSeq(code, 5, Len(code))

\* `${usingStatement}\n\n${output}`
prependUsing(code, serializationAttributes) ==
    usingStatement(serializationAttributes) \o <<NL, NL>> \o code

\* String.prototype.trim
RECURSIVE trimStart(_)
trimStart(code) ==
    IF code # <<>> /\ code[1] = NL THEN trimStart(Tail(code)) ELSE code
RECURSIVE trimEnd(_)
trimEnd(code) ==
    IF code # <<>> /\ Last(code) = NL THEN trimEnd(Front(code, 1)) ELSE code
trim(code) == trimEnd(trimStart(code))

(***************************************************************************)
(* validator.ts: validateJson.  A JSON text is a sequence of atoms: the    *)
(* six structural characters, a string literal, a digit, the literal null, *)
(* a single quote and a blank.                                             *)
(***************************************************************************)

\* the largest number of atoms of a modelled JSON text
MaxJsonLen == 4

STR == "\"a\""
NUM == "1"
NULL == "null"
WS  == " "

JsonAtoms == {"{", "}", "[", "]", ",", ":", STR, NUM, NULL, "'", WS}

\* the texts of at most n atoms
RECURSIVE JsonTexts(_)
JsonTexts(n) ==
    IF n = 0 THEN { <<>> }
    ELSE LET shorter == JsonTexts(n - 1)
         IN shorter \cup
            { Append(s, a) : s \in { x \in shorter : Len(x) = n - 1 }, a \in JsonAtoms }

\* the index of the first atom at or after i that is not a blank
RECURSIVE SkipWs(_, _)
SkipWs(s, i) ==
    IF i <= Len(s) /\ s[i] = WS THEN SkipWs(s, i + 1) ELSE i

\* the index after the digits that start at i
RECURSIVE AfterDigits(_, _)
AfterDigits(s, i) ==
    IF i <= Len(s) /\ s[i] = NUM THEN AfterDigits(s, i + 1) ELSE i

\* the index after the word characters (\w+) that start at i
RECURSIVE AfterWord(_, _)
AfterWord(s, i) ==
    IF i <= Len(s) /\ s[i] \in {NUM, NULL} THEN AfterWord(s, i + 1) ELSE i

\* String.prototype.trim on a sequence of atoms
RECURSIVE trimBlanks(_)
trimBlanks(s) ==
    IF s # <<>> /\ s[1] = WS THEN trimBlanks(Tail(s))
    ELSE IF s # <<>> /\ s[Len(s)] = WS THEN trimBlanks(SubSeq(s, 1, Len(s) - 1))
    ELSE s

\* JSON.parse as a recogniser: the index after the value that starts at or
\* after i, or 0 when there is no value there
RECURSIVE ParseValue(_, _)
RECURSIVE ParseElements(_, _, _)
RECURSIVE ParseMembers(_, _, _)
ParseValue(s, i) ==
    LET j == SkipWs(s, i)
    IN IF j > Len(s) THEN 0
       ELSE IF s[j] = STR \/ s[j] = NULL THEN j + 1
       ELSE IF s[j] = NUM THEN AfterDigits(s, j)
       ELSE IF s[j] = "[" THEN ParseElements(s, j + 1, TRUE)
       ELSE IF s[j] = "{" THEN ParseMembers(s, j + 1, TRUE)
       ELSE 0

\* the elements of an array from index i on; first: "]" may come at once
ParseElements(s, i, first) ==
    LET j == SkipWs(s, i)
    IN IF j > Len(s) THEN 0
       ELSE IF first /\ s[j] = "]" THEN j + 1
       ELSE LET k == ParseValue(s, j)
                m == SkipWs(s, k)
            IN IF k = 0 \/ m > Len(s) THEN 0
               ELSE IF s[m] = "]" THEN m + 1
               ELSE IF s[m] = "," THEN ParseElements(s, m + 1, FALSE)
               ELSE 0

\* the members of an object from index i on; first: "}" may come at once
ParseMembers(s, i, first) ==
    LET j == SkipWs(s, i)
    IN IF j > Len(s) THEN 0
       ELSE IF first /\ s[j] = "}" THEN j + 1
       ELSE IF s[j] # STR THEN 0
       ELSE LET c == SkipWs(s, j + 1)
            IN IF c > Len(s) \/ s[c] # ":" THEN 0
               ELSE LET k == ParseValue(s, c + 1)
                        m == SkipWs(s, k)
                    IN IF k = 0 \/ m > Len(s) THEN 0
                       ELSE IF s[m] = "}" THEN m + 1
                       ELSE IF s[m] = "," THEN ParseMembers(s, m + 1, FALSE)
                       ELSE 0

\* JSON.parse that stops after the first value
ParsesPrefix(s) == ParseValue(s, 1) # 0
\* JSON.parse(s) returns
Parses(s) ==
    LET k == ParseValue(s, 1)
    IN k # 0 /\ SkipWs(s, k) = Len(s) + 1

\* the messages of the SyntaxError that JSON.parse may throw
UnexpectedToken == "Unexpected token } in JSON at position 1"
UnexpectedEnd   == "Unexpected end of JSON input"
ExpectedName    == "Expected property name or '}' in JSON at position 1"
ParseMessages   == {UnexpectedToken, UnexpectedEnd, ExpectedName}

\* /,\s*[}\]]/.test(s)
HasTrailingComma(s) ==
    \E i \in 1..Len(s) :
        /\ s[i] = ","
        /\ LET j == SkipWs(s, i + 1) IN j <= Len(s) /\ s[j] \in {"}", "]"}

\* /[{,]\s*\w+\s*:/.test(s)
HasUnquotedName(s) ==
    \E i \in 1..Len(s) :
        /\ s[i] \in {"{", ","}
        /\ LET j == SkipWs(s, i + 1)
               k == SkipWs(s, AfterWord(s, j))
           IN j <= Len(s) /\ s[j] \in {NUM, NULL} /\ k <= Len(s) /\ s[k] = ":"

\* /'/.test(s)
HasSingleQuote(s) == \E i \in 1..Len(s) : s[i] = "'"

\* validateJson(jsonString); message is what JSON.parse throws when it throws.
\* error is "" when the result has no error property.
validateJson(jsonString, message) ==
    LET trimmed == trimBlanks(jsonString)
    IN IF trimmed = <<>>
       THEN [isValid |-> FALSE, error |-> "Empty input - no JSON content found"]
       ELSE IF trimmed[1] # "{" /\ trimmed[1] # "["
       THEN [isValid |-> FALSE, error |-> "JSON must start with { or ["]
       ELSE IF Parses(trimmed)
       THEN [isValid |-> TRUE, error |-> ""]
       ELSE IF message = UnexpectedToken /\ HasTrailingComma(trimmed)
       THEN [isValid |-> FALSE,
             error |-> "Trailing comma detected - remove the comma before } or ]"]
       ELSE IF message = UnexpectedToken /\ HasUnquotedName(trimmed)
       THEN [isValid |-> FALSE,
             error |-> "Unquoted property name detected - property names must be in double quotes"]
       ELSE IF message = UnexpectedToken /\ HasSingleQuote(trimmed)
       THEN [isValid |-> FALSE,
             error |-> "Single quotes detected - JSON requires double quotes for strings"]
       ELSE IF message = UnexpectedEnd
       THEN [isValid |-> FALSE,
             error |-> "Incomplete JSON - missing closing bracket or brace"]
       ELSE [isValid |-> FALSE, error |-> message]

\* a JSON value that quicktype infers the type from
RECURSIVE JsonValue(_)
JsonValue(type) ==
    CASE type = TLong      -> <<NUM>>
      [] type = TString    -> <<STR>>
      [] type = TObject    -> <<NULL>>
      [] type[1] = "opt"   -> JsonValue(type[2])
      [] type[1] = "arr"   -> <<"[">> \o JsonValue(type[2]) \o <<"]">>
      [] type[1] = "map"   -> <<"{", STR, ":">> \o JsonValue(type[2]) \o <<"}">>
      [] type[1] = "cls"   -> <<"{", STR, ":", STR, "}">>

\* the members of a JSON object with the given properties
RECURSIVE JsonMembers(_)
JsonMembers(fields) ==
    IF fields = <<>> THEN <<>>
    ELSE <<STR, ":">> \o JsonValue(fields[1].type)
         \o (IF Len(fields) > 1 THEN <<",">> ELSE <<>>)
         \o JsonMembers(Tail(fields))

\* a JSON text of a document
JsonText(document) == <<"{">> \o JsonMembers(Fields(document)) \o <<"}">>

\* clipboard contents that are not a JSON object
OtherClipboards ==
    { <<>>, <<WS>>, <<NUM>>, <<"[", NUM>>, <<"{", STR, ":", NUM, ",", "}">> }

\* what the clipboard may hold
ClipboardTexts == { JsonText(d) : d \in Inputs } \cup OtherClipboards

(***************************************************************************)
(* The paste command and convertJsonToCSharp as a state machine.  The      *)
(* post-processing of convertJsonToCSharp is one synchronous run; pc walks *)
(* through its statements in program order so that the text between two    *)
(* stages can be inspected.                                                *)
(***************************************************************************)

RootName == "Root"

\* A root class name as the string of its characters.
DefaultRootClassName == <<"R", "o", "o", "t">>
OrderName   == <<"O", "r", "d", "e", "r">>
MyClassName == <<"m", "y", " ", "c", "l", "a", "s", "s">>
SecondName  == <<"2", "n", "d">>

\* the values of the json2csharp.rootClassName setting
SettingNames == {DefaultRootClassName, OrderName, MyClassName}

\* what the user may type into the input box
TypedNames == SettingNames \cup {<<>>, <<" ">>, SecondName}

Letters == {"R", "o", "t", "O", "r", "d", "e", "m", "y", "c", "l", "a", "s", "n"}
Digits  == {"2"}

\* /^[a-zA-Z_][a-zA-Z0-9_]*$/.test(value)
IsClassName(value) ==
    /\ value # <<>>
    /\ value[1] \in Letters \cup {"_"}
    /\ \A i \in 2..Len(value) : value[i] \in Letters \cup Digits \cup {"_"}

\* value.trim() is empty: the characters of value are all blanks
IsBlank(value) == \A i \in 1..Len(value) : value[i] = " "

\* validateInput of the input box: the message shown, or "null" to accept
validateInput(value) ==
    IF IsBlank(value) THEN "Class name cannot be empty"
    ELSE IF ~IsClassName(value) THEN "Invalid C# class name"
    ELSE "null"

\* the name quicktype gives the top-level class for a rootClassName
TopLevelName(name) ==
    CASE name = DefaultRootClassName -> RootName
      [] name = OrderName            -> "Order"
      [] name = MyClassName          -> "MyClass"

\* what calculateNamespace may return for the editor's file: undefined (the
\* empty namespace) or a namespace
NamespaceResults == { <<>>, <<"MyApp", ".", "Models">> }

NoArgs == [rootClassName |-> DefaultRootClassName,
           nullableStyle |-> "none", namespace |-> <<>>,
           serializationAttributes |-> "none", alwaysRenderAttributes |-> FALSE]

DefaultSettings ==
    [typeStyle |-> "class", collectionType |-> "IEnumerable",
     nullableReferenceTypes |-> "none", serializationAttributes |-> "SystemTextJson",
     includeNamespace |-> FALSE, attributeRendering |-> "whenDifferent",
     alwaysUseRootClassName |-> FALSE, rootClassName |-> DefaultRootClassName]

\* the configurations of a paste that skips the prompt and uses the default
\* root class name
SettingsSpace ==
    [typeStyle : TypeStyles, collectionType : CollectionTypes,
     nullableReferenceTypes : {"none", "nullable", "defaultValues"},
     serializationAttributes : Frameworks,
     includeNamespace : BOOLEAN, attributeRendering : {"whenDifferent", "always"},
     alwaysUseRootClassName : {TRUE}, rootClassName : {DefaultRootClassName}]

\* activation: no module loaded, nothing called, nothing shown
Untouched ==
    /\ result = <<>>
    /\ editor = TRUE
    /\ clipboard = <<>>
    /\ trace = <<>>
    /\ quicktypeCore = "null"
    /\ csharpLang = "null"
    /\ requires = [quicktypeCore |-> 0, csharpLang |-> 0]
    /\ calls = <<>>
    /\ files = <<>>
    /\ currentDir = <<>>

Init ==
    /\ settings = DefaultSettings
    /\ doc = <<>>
    /\ via = "none"
    /\ args = NoArgs
    /\ pc = "idle"
    /\ output = <<>>
    /\ inserted = <<>>
    /\ input = <<>>
    /\ Untouched

\* loadQuicktypeModules() without the tests of the cache
loadQuicktypeModulesUnguarded ==
    /\ quicktypeCore' = "quicktype-core"
    /\ csharpLang' = "quicktype-core/dist/language/CSharp"
    /\ requires' = [quicktypeCore |-> requires.quicktypeCore + 1,
                    csharpLang |-> requires.csharpLang + 1]

\* loadQuicktypeModules(): each module is required when its cache is empty
loadQuicktypeModules ==
    /\ quicktypeCore' = IF quicktypeCore = "null" THEN "quicktype-core"
                        ELSE quicktypeCore
    /\ csharpLang' = IF csharpLang = "null" THEN "quicktype-core/dist/language/CSharp"
                     ELSE csharpLang
    /\ requires' =
         [quicktypeCore |-> requires.quicktypeCore
                            + (IF quicktypeCore = "null" THEN 1 ELSE 0),
          csharpLang |-> requires.csharpLang
                         + (IF csharpLang = "null" THEN 1 ELSE 0)]

\* convertJsonToCSharp up to `let output = result.lines.join('\n')`
StartConversion(config, document, a) ==
    /\ settings' = config
    /\ doc' = document
    /\ args' = a
    /\ loadQuicktypeModules
    /\ UNCHANGED <<calls, callVars>>
    /\ output' = Render(TopLevelName(a.rootClassName), Fields(document),
                        a.serializationAttributes,
                        IF config.collectionType = "Array" THEN "array" ELSE "list")
    /\ pc' = "rendered"

\* the arguments of the paste command's call of convertJsonToCSharp
PasteArgs(config, rootClassName, ns) ==
    [rootClassName |-> rootClassName,
     nullableStyle |->
         IF config.nullableReferenceTypes = "nullable" THEN "nullable"
         ELSE IF config.nullableReferenceTypes = "defaultValues" THEN "defaults"
         ELSE "none",
     serializationAttributes |-> config.serializationAttributes,
     namespace |-> IF config.includeNamespace THEN ns ELSE <<>>,
     alwaysRenderAttributes |-> FALSE]

\* the json2csharp.paste command: the settings it reads and the call it makes
\* (six arguments: alwaysRenderAttributes keeps its default, false)
PasteCommand ==
    /\ pc = "idle"
    /\ \E config \in SettingsSpace, document \in Inputs, ns \in NamespaceResults :
         /\ (~config.includeNamespace => ns = <<>>)
         /\ StartConversion(config, document,
              PasteArgs(config, config.rootClassName, ns))
         /\ clipboard' = JsonText(document)
    /\ via' = "paste"
    /\ trace' = <<"readText", "validateJson", "convertJsonToCSharp">>
    /\ UNCHANGED <<inserted, input, editor>>

\* a call of the exported convertJsonToCSharp with arguments of the caller's
\* choice; of config the converter reads typeStyle and collectionType
DirectCall ==
    /\ pc = "idle"
    /\ \E ts \in TypeStyles, ct \in CollectionTypes, document \in Inputs,
          nst \in NullableStyles, fw \in Frameworks, ns \in NamespaceResults,
          always \in BOOLEAN :
         StartConversion([DefaultSettings EXCEPT !.typeStyle = ts, !.collectionType = ct],
                         document,
                         [rootClassName |-> DefaultRootClassName,
                          nullableStyle |-> nst, serializationAttributes |-> fw,
                          namespace |-> ns, alwaysRenderAttributes |-> always])
    /\ via' = "api"
    /\ UNCHANGED <<inserted, input, commandVars>>

Step(from, to, text) ==
    /\ pc = from
    /\ pc' = to
    /\ output' = text
    /\ UNCHANGED <<settings, doc, via, args, inserted, input,
                   commandVars, cacheVars, calls, callVars>>

AttributeStage ==
    Step("rendered", "attributes",
         IF args.serializationAttributes # "none" /\ ~args.alwaysRenderAttributes
         THEN removeRedundantAttributes(output) ELSE output)

CollectionStage ==
    Step("attributes", "collections",
         IF settings.collectionType # "Array"
         THEN convertCollectionType(output, settings.collectionType) ELSE output)

NullabilityStage ==
    Step("collections", "nullability",
         IF args.nullableStyle = "nullable" THEN addNullableAnnotations(output)
         ELSE IF args.nullableStyle = "defaults" THEN addDefaultValues(output)
         ELSE output)

\* 'partial' is removed right after the collection stage
PartialStageBeforeNullability ==
    Step("collections", "partial", removePartial(output))

PartialStage ==
    Step("nullability", "partial", removePartial(output))

TypeStyleStage ==
    Step("partial", "typeStyle",
         IF settings.typeStyle = "recordPositional" THEN convertToPositionalRecords(output)
         ELSE IF settings.typeStyle = "recordProperties" THEN convertToRecordProperties(output)
         ELSE output)

\* the using line prepended whenever a framework is configured
NamespaceStageUsingWithoutNamespace ==
    LET withNs == IF args.namespace # <<>>
                  THEN prependNamespace(output, args.namespace) ELSE output
        withUsing == IF args.serializationAttributes # "none"
                     THEN prependUsing(withNs, args.serializationAttributes) ELSE withNs
    IN Step("typeStyle", "returned", trim(withUsing))

\* the namespace line, the using line and `return output.trim()`
NamespaceStage ==
    LET withNs == IF args.namespace # <<>>
                  THEN prependNamespace(output, args.namespace) ELSE output
        withUsing == IF args.serializationAttributes # "none" /\ args.namespace # <<>>
                     THEN prependUsing(withNs, args.serializationAttributes) ELSE withNs
    IN Step("typeStyle", "returned", trim(withUsing))

\* editor.edit(editBuilder => editBuilder.insert(..., csharpCode))
Insert ==
    /\ pc = "returned" /\ via = "paste"
    /\ inserted' = output
    /\ trace' = Append(trace, "insert")
    /\ pc' = "inserted"
    /\ UNCHANGED <<settings, doc, via, args, output, input,
                   editor, clipboard, cacheVars, calls, callVars>>

Stages ==
    \/ AttributeStage
    \/ CollectionStage
    \/ NullabilityStage
    \/ PartialStage
    \/ TypeStyleStage
    \/ NamespaceStage

\* conversions called with any arguments
Next == DirectCall \/ Stages

Spec == Init /\ [][Next]_vars

\* the documents with the declaration-like key: alone and after one other
\* property
DeclarationKeyInputs ==
    {<<DeclarationKeyIndex>>} \cup { <<i, DeclarationKeyIndex>> : i \in 1..Len(FieldPool) }

\* convertJsonToCSharp called with any arguments on such a document
DeclarationKeyCall ==
    /\ pc = "idle"
    /\ \E ts \in TypeStyles, ct \in CollectionTypes, document \in DeclarationKeyInputs,
          nst \in NullableStyles, fw \in Frameworks, ns \in NamespaceResults,
          always \in BOOLEAN :
         StartConversion([DefaultSettings EXCEPT !.typeStyle = ts, !.collectionType = ct],
                         document,
                         [rootClassName |-> DefaultRootClassName,
                          nullableStyle |-> nst, serializationAttributes |-> fw,
                          namespace |-> ns, alwaysRenderAttributes |-> always])
    /\ via' = "api"
    /\ UNCHANGED <<inserted, input, commandVars>>

DeclarationKeyNext == DeclarationKeyCall \/ Stages

DeclarationKeySpec == Init /\ [][DeclarationKeyNext]_vars

\* conversions started by the paste command
PasteNext == PasteCommand \/ Stages \/ Insert

PasteSpec == Init /\ [][PasteNext]_vars

\* the configurations of the paste command under which the root class name
\* is followed
CommandSettingsSpace ==
    [typeStyle : TypeStyles, collectionType : {"IEnumerable"},
     nullableReferenceTypes : {"none"},
     serializationAttributes : {"SystemTextJson"},
     includeNamespace : BOOLEAN, attributeRendering : {"whenDifferent"},
     alwaysUseRootClassName : BOOLEAN, rootClassName : SettingNames]

\* the messages of the paste command's showErrorMessage calls
ErrorMessages ==
    {"No active editor found", "Clipboard is empty", "Invalid JSON",
     "Failed to convert JSON"}

\* the command is registered; an editor may be open, the clipboard holds a text
CommandInit ==
    /\ settings = DefaultSettings
    /\ doc = <<>>
    /\ via = "none"
    /\ args = NoArgs
    /\ pc = "idle"
    /\ output = <<>>
    /\ inserted = <<>>
    /\ input = <<>>
    /\ result = <<>>
    /\ editor \in BOOLEAN
    /\ clipboard \in ClipboardTexts
    /\ trace = <<>>
    /\ quicktypeCore = "null"
    /\ csharpLang = "null"
    /\ requires = [quicktypeCore |-> 0, csharpLang |-> 0]
    /\ calls = <<>>
    /\ files = <<>>
    /\ currentDir = <<>>

\* the command returns: nothing more happens in this invocation
Return(shown) ==
    /\ trace' = trace \o shown
    /\ pc' = "ended"
    /\ UNCHANGED <<settings, doc, args, output, cacheVars>>

\* the command calls convertJsonToCSharp, which gets as far as its output or
\* rejects in addSource or quicktype
CallConversion(config, document, a) ==
    \/ StartConversion(config, document, a)
    \/ /\ settings' = config
       /\ doc' = document
       /\ args' = a
       /\ loadQuicktypeModules
       /\ pc' = "rejected"
       /\ UNCHANGED <<output, calls, callVars>>

\* the command reads the clipboard whether or not an editor is open
PasteInvokedWithoutEditor ==
    /\ pc = "idle"
    /\ via' = "paste"
    /\ trace' = Append(trace, "readText")
    /\ pc' = "readText"
    /\ UNCHANGED <<settings, doc, args, output, cacheVars>>
    /\ UNCHANGED <<inserted, input, editor, clipboard, calls, callVars>>
\* json2csharp.paste up to `await vscode.env.clipboard.readText()`
PasteInvoked ==
    /\ pc = "idle"
    /\ via' = "paste"
    /\ IF ~editor
       THEN Return(<<"No active editor found">>)
       ELSE /\ trace' = Append(trace, "readText")
            /\ pc' = "readText"
            /\ UNCHANGED <<settings, doc, args, output, cacheVars>>
    /\ UNCHANGED <<inserted, input, editor, clipboard, calls, callVars>>

\* the clipboard text arrives: the command checks it, reads its settings and
\* goes on to its call of convertJsonToCSharp or, when the name is asked
\* for, to showInputBox
ClipboardRead ==
    /\ pc = "readText"
    /\ IF trimBlanks(clipboard) = <<>>
       THEN Return(<<"Clipboard is empty">>) /\ UNCHANGED <<calls, callVars>>
       ELSE \E message \in ParseMessages :
              IF ~validateJson(clipboard, message).isValid
              THEN /\ Return(<<"validateJson", "Invalid JSON">>)
                   /\ UNCHANGED <<calls, callVars>>
              ELSE \E config \in CommandSettingsSpace, ns \in NamespaceResults,
                      document \in { d \in Inputs : JsonText(d) = clipboard } :
                     /\ (~config.includeNamespace => ns = <<>>)
                     /\ IF config.alwaysUseRootClassName
                        THEN /\ CallConversion(config, document,
                                     PasteArgs(config, config.rootClassName, ns))
                             /\ trace' = trace \o <<"validateJson", "convertJsonToCSharp">>
                        ELSE /\ settings' = config
                             /\ doc' = document
                             /\ pc' = "prompt"
                             /\ trace' = trace \o <<"validateJson", "showInputBox">>
                             /\ UNCHANGED <<args, output, cacheVars, calls, callVars>>
    /\ UNCHANGED <<via, inserted, input, editor, clipboard>>

\* the user accepts a value the input box validates; the command goes on to
\* its call of convertJsonToCSharp
PromptAccepted ==
    /\ pc = "prompt"
    /\ \E userInput \in TypedNames, ns \in NamespaceResults :
         /\ validateInput(userInput) = "null"
         /\ userInput # <<>>
         /\ (~settings.includeNamespace => ns = <<>>)
         /\ CallConversion(settings, doc, PasteArgs(settings, userInput, ns))
    /\ trace' = Append(trace, "convertJsonToCSharp")
    /\ UNCHANGED <<via, inserted, input, editor, clipboard>>

\* the user dismisses the input box: showInputBox resolves to undefined and
\* the command returns
PromptCancelled ==
    /\ pc = "prompt"
    /\ Return(<<>>)
    /\ UNCHANGED <<via, inserted, input, editor, clipboard, calls, callVars>>

\* the rejection of convertJsonToCSharp is swallowed
ConversionFailedSilent ==
    /\ pc = "rejected"
    /\ Return(<<>>)
    /\ UNCHANGED <<via, inserted, input, editor, clipboard, calls, callVars>>
\* catch (error): the rejection of convertJsonToCSharp is shown
ConversionFailed ==
    /\ pc = "rejected"
    /\ Return(<<"Failed to convert JSON">>)
    /\ UNCHANGED <<via, inserted, input, editor, clipboard, calls, callVars>>

CommandNext ==
    \/ PasteInvoked
    \/ ClipboardRead
    \/ PromptAccepted
    \/ PromptCancelled
    \/ ConversionFailed
    \/ Stages
    \/ Insert

CommandSpec == CommandInit /\ [][CommandNext]_vars

(***************************************************************************)
(* The stage functions as functions of their text.                         *)
(* removeRedundantAttributes is called on a text built from attribute      *)
(* lines, property lines and blank lines, or on a text of the renderer;    *)
(* the type-style conversions are called on the texts that reach them.     *)
(***************************************************************************)

\* The largest number of lines of a text built from TextLines.
MaxLines == 4

TextLines ==
    { <<AttributeToken("JsonPropertyName", <<"id">>)>>,
      <<AttributeToken("JsonProperty", <<"Id">>)>>,
      <<AttributeToken("JsonPropertyName", <<"user_id">>)>>,
      << <<"public">>, <<"long">>, <<"Id">> >> \o PropertyTail,
      << <<"public">>, <<"string">>, <<"UserId">> >> \o PropertyTail,
      <<>> }

\* the texts of at most n lines, each line ended by a line break
RECURSIVE LinesTexts(_)
LinesTexts(n) ==
    IF n = 0 THEN { <<>> }
    ELSE LET shorter == LinesTexts(n - 1)
         IN {<<>>} \cup { l \o <<NL>> \o t : l \in TextLines, t \in shorter }

\* the renderer's texts with attributes
RenderedTexts ==
    { Render(RootName, Fields(d), fw, at) :
        d \in Inputs, fw \in {"SystemTextJson", "NewtonsoftJson"},
        at \in {"array", "list"} }

\* a property whose JSON key reads like a declaration
KeywordKeyField ==
    [key |-> <<"public", " ", "class", " ", "x">>, name |-> "PublicClassX",
     type |-> TLong]

\* the renderer's texts for the documents {"public class x": 1} and
\* {"id": 1, "public class x": 1}
KeywordKeyTexts ==
    { Render(RootName, fields, fw, "list") :
        fields \in { <<KeywordKeyField>>, <<FieldPool[1], KeywordKeyField>> },
        fw \in {"SystemTextJson", "NewtonsoftJson"} }

\* the texts that reach the type-style stage: the renderer's, 'partial' removed
TypeStyleTexts == { removePartial(t) : t \in RenderedTexts \cup KeywordKeyTexts }

\* a class without properties, as the type-style stage receives it
EmptyClass == removePartial(RenderClass("Empty", <<>>, "none", "list"))

\* texts with a class without properties: alone, before and after the
\* classes of a document
PositionalTexts ==
    LET withFields == { removePartial(t) : t \in RenderedTexts }
    IN {EmptyClass}
       \cup withFields
       \cup { EmptyClass \o <<NL>> \o t : t \in withFields }
       \cup { t \o <<NL>> \o EmptyClass : t \in withFields }

Texts == LinesTexts(MaxLines) \cup RenderedTexts \cup TypeStyleTexts \cup PositionalTexts

TextInit ==
    /\ settings = DefaultSettings
    /\ doc = <<>>
    /\ via = "text"
    /\ args = NoArgs
    /\ pc = "text"
    /\ output = <<>>
    /\ inserted = <<>>
    /\ input \in Texts
    /\ Untouched

\* output = removeRedundantAttributes(input)
ApplyRemoveRedundant ==
    /\ pc = "text"
    /\ output' = removeRedundantAttributes(input)
    /\ pc' = "applied"
    /\ UNCHANGED <<settings, doc, via, args, inserted, input,
                   commandVars, cacheVars, calls, callVars>>

\* output = output.replace(/public\s+class\s+(\w+)/g, 'public record $1')
ApplyRecordProperties ==
    /\ pc = "text"
    /\ input \in TypeStyleTexts
    /\ output' = convertToRecordProperties(input)
    /\ pc' = "renamed"
    /\ UNCHANGED <<settings, doc, via, args, inserted, input,
                   commandVars, cacheVars, calls, callVars>>

\* output = convertToPositionalRecords(output)
ApplyPositionalRecords ==
    /\ pc = "text"
    /\ input \in PositionalTexts
    /\ output' = convertToPositionalRecords(input)
    /\ pc' = "positional"
    /\ UNCHANGED <<settings, doc, via, args, inserted, input,
                   commandVars, cacheVars, calls, callVars>>

TextNext == ApplyRemoveRedundant \/ ApplyRecordProperties \/ ApplyPositionalRecords

TextSpec == TextInit /\ [][TextNext]_vars

\* validateJson called on a text of its own
ValidateInit ==
    /\ settings = DefaultSettings
    /\ doc = <<>>
    /\ via = "validator"
    /\ args = NoArgs
    /\ pc = "json"
    /\ output = <<>>
    /\ inserted = <<>>
    /\ input \in JsonTexts(MaxJsonLen)
    /\ Untouched

\* result = validateJson(input)
ApplyValidateJson ==
    /\ pc = "json"
    /\ \E message \in ParseMessages : result' = validateJson(input, message)
    /\ pc' = "validated"
    /\ UNCHANGED <<settings, doc, via, args, output, inserted, input,
                   commandVars, cacheVars, calls, files, currentDir>>

ValidateSpec == ValidateInit /\ [][ApplyValidateJson]_vars

(***************************************************************************)
(* converter.ts: the module cache under several calls of                  *)
(* convertJsonToCSharp that suspend at their await points.                 *)
(***************************************************************************)

\* the largest number of calls of convertJsonToCSharp in flight at once
MaxCalls == 5

\* nothing was called yet; MaxCalls callers may call convertJsonToCSharp
LoaderInit ==
    /\ settings = DefaultSettings
    /\ doc = <<>>
    /\ via = "api"
    /\ args = NoArgs
    /\ pc = "calls"
    /\ output = <<>>
    /\ inserted = <<>>
    /\ input = <<>>
    /\ result = <<>>
    /\ editor = TRUE
    /\ clipboard = <<>>
    /\ trace = <<>>
    /\ quicktypeCore = "null"
    /\ csharpLang = "null"
    /\ requires = [quicktypeCore |-> 0, csharpLang |-> 0]
    /\ calls = [c \in 1..MaxCalls |-> "idle"]
    /\ files = <<>>
    /\ currentDir = <<>>

\* what a step of one of several calls leaves alone
LoaderFrame ==
    UNCHANGED <<settings, doc, via, args, pc, output, inserted, input,
                commandVars, callVars>>

\* a call of convertJsonToCSharp runs to `await jsonInput.addSource(...)`:
\* loadQuicktypeModules() at its line 167
CallStarts(c) ==
    /\ calls[c] = "idle"
    /\ loadQuicktypeModules
    /\ calls' = [calls EXCEPT ![c] = "addSource"]
    /\ LoaderFrame

\* addSource resolved: the call runs to `await quicktype(...)`, through
\* createCustomCSharpLanguage and its loadQuicktypeModules()
CallResumes(c) ==
    /\ calls[c] = "addSource"
    /\ loadQuicktypeModules
    /\ calls' = [calls EXCEPT ![c] = "quicktype"]
    /\ LoaderFrame

\* quicktype resolved or one of the awaits rejected: the call is over and
\* its caller may call again
CallEnds(c) ==
    /\ calls[c] \in {"addSource", "quicktype"}
    /\ calls' = [calls EXCEPT ![c] = "idle"]
    /\ UNCHANGED cacheVars
    /\ LoaderFrame

LoaderNext == \E c \in 1..MaxCalls : CallStarts(c) \/ CallResumes(c) \/ CallEnds(c)

LoaderSpec == LoaderInit /\ [][LoaderNext]_vars

(***************************************************************************)
(* namespace.ts: calculateNamespace.  A path is absolute or relative and   *)
(* has a sequence of names; a name is the sequence of its atoms.  The      *)
(* directory "/" is the absolute path without names, "." the relative one. *)
(***************************************************************************)

\* the largest number of folders above a modelled file
MaxDepth == 2

CSHARP_KEYWORDS ==
    {"abstract", "as", "base", "bool", "break", "byte", "case", "catch", "char",
     "checked", "class", "const", "continue", "decimal", "default", "delegate",
     "do", "double", "else", "enum", "event", "explicit", "extern", "false",
     "finally", "fixed", "float", "for", "foreach", "goto", "if", "implicit",
     "in", "int", "interface", "internal", "is", "lock", "long", "namespace",
     "new", "null", "object", "operator", "out", "override", "params", "private",
     "protected", "public", "readonly", "ref", "return", "sbyte", "sealed",
     "short", "sizeof", "stackalloc", "static", "string", "struct", "switch",
     "this", "throw", "true", "try", "typeof", "uint", "ulong", "unchecked",
     "unsafe", "ushort", "using", "virtual", "void", "volatile", "while"}

\* the word atoms that start with a digit
DigitFirst == {"2nd"}

\* /^[a-zA-Z_][a-zA-Z0-9_]*$/.test(name): one word that does not start with
\* a digit
isValidCSharpIdentifier(name) ==
    Len(name) = 1 /\ IsWordAtom(name[1]) /\ name[1] \notin DigitFirst

\* CSHARP_KEYWORDS.has(name.toLowerCase()) ? `@${name}` : name
escapeCSharpKeyword(name) ==
    IF Len(name) = 1 /\ toLowerCase(name[1]) \in CSHARP_KEYWORDS
    THEN <<"@">> \o name ELSE name

\* String.prototype.split('.') on a sequence of atoms
RECURSIVE SplitDots(_)
SplitDots(name) ==
    LET dots == { i \in 1..Len(name) : name[i] = "." }
    IN IF dots = {} THEN <<name>>
       ELSE LET i == CHOOSE d \in dots : \A e \in dots : d <= e
            IN <<SubSeq(name, 1, i - 1)>> \o SplitDots(SubSeq(name, i + 1, Len(name)))

\* Array.prototype.join('.')
RECURSIVE JoinDots(_)
JoinDots(parts) ==
    IF parts = <<>> THEN <<>>
    ELSE IF Len(parts) = 1 THEN parts[1]
    ELSE parts[1] \o <<".">> \o JoinDots(Tail(parts))

\* the folder names of the model
FolderNames ==
    { <<"Models">>, <<"class">>, <<"Class">>, <<"my", "-", "folder">>,
      <<"Api", ".", "V1">>, <<".", ".", "drafts">> }

FileName == <<"Dto", ".", "cs">>

\* the sequences of at most n folder names
RECURSIVE FolderSeqs(_)
FolderSeqs(n) ==
    IF n = 0 THEN { <<>> }
    ELSE LET shorter == FolderSeqs(n - 1)
         IN shorter \cup
            { Append(s, f) : s \in { x \in shorter : Len(x) = n - 1 }, f \in FolderNames }

\* the paths of a file: of a saved document (absolute) and of one without a
\* folder of its own (relative, as the fsPath of an untitled document)
FilePaths ==
    { [abs |-> a, names |-> Append(d, FileName)] : a \in BOOLEAN, d \in FolderSeqs(MaxDepth) }

\* the project files of the model: file name without .csproj, and the text
\* of the RootNamespace element (<<>> when there is none)
ProjectFiles ==
    [name : { <<"App">>, <<"My", "-", "App">> },
     rootNamespace : { <<>>, <<"Acme", ".", "Core">>, <<"2nd">> }]

\* path.dirname
dirname(p) ==
    IF p.names = <<>> THEN p ELSE [p EXCEPT !.names = SubSeq(@, 1, Len(@) - 1)]

\* currentDir === root, root being path.parse(currentDir).root: "/" for an
\* absolute path and "" for a relative one, which no directory equals
AtRoot(dir) == dir.abs /\ dir.names = <<>>

\* fs.readdirSync(dir) has a file that ends with .csproj
HasCsproj(dir) == Len(dir.names) \in files.depths

\* extractRootNamespace(csprojPath)
extractRootNamespace(project) ==
    IF /\ project.rootNamespace # <<>>
       /\ LET segments == SplitDots(project.rootNamespace)
          IN \A i \in 1..Len(segments) : isValidCSharpIdentifier(segments[i])
    THEN project.rootNamespace
    ELSE IF isValidCSharpIdentifier(project.name) THEN project.name ELSE <<>>

\* relativePath.startsWith('..')
StartsWithDotDot(folders) ==
    Len(folders[1]) >= 2 /\ folders[1][1] = "." /\ folders[1][2] = "."

\* the parts of the folders, in order: folder.split('.') for each folder
RECURSIVE FolderParts(_)
FolderParts(folders) ==
    IF folders = <<>> THEN <<>>
    ELSE SplitDots(folders[1]) \o FolderParts(Tail(folders))

\* calculateNamespace from line 98 on, csprojDir being the directory
\* findNearestCsproj found; <<>> is undefined
NamespaceFrom(csprojDir, filePath) ==
    LET rootNamespace == extractRootNamespace(files.project)
        fileDir == dirname(filePath)
        folders == SubSeq(fileDir.names, Len(csprojDir.names) + 1, Len(fileDir.names))
        parts == FolderParts(folders)
        namespaceSegments == [i \in 1..Len(parts) |-> escapeCSharpKeyword(parts[i])]
    IN IF fileDir = csprojDir THEN rootNamespace
       ELSE IF StartsWithDotDot(folders) THEN rootNamespace
       ELSE IF \E i \in 1..Len(parts) : ~isValidCSharpIdentifier(parts[i]) THEN <<>>
       ELSE IF rootNamespace # <<>>
       THEN JoinDots(<<rootNamespace>> \o namespaceSegments)
       ELSE JoinDots(namespaceSegments)

\* calculateNamespace is about to be called with a file path; some of the
\* file's directory and its parents hold a project file
NamespaceInit ==
    /\ settings = DefaultSettings
    /\ doc = <<>>
    /\ via = "namespace"
    /\ args = NoArgs
    /\ pc = "call"
    /\ output = <<>>
    /\ inserted = <<>>
    /\ input \in FilePaths
    /\ result = <<>>
    /\ editor = TRUE
    /\ clipboard = <<>>
    /\ trace = <<>>
    /\ quicktypeCore = "null"
    /\ csharpLang = "null"
    /\ requires = [quicktypeCore |-> 0, csharpLang |-> 0]
    /\ calls = <<>>
    /\ files \in [depths : SUBSET (0..(Len(input.names) - 1)), project : ProjectFiles]
    /\ currentDir = <<>>

\* what a step of calculateNamespace leaves alone
NamespaceFrame ==
    UNCHANGED <<settings, doc, via, args, output, inserted, input,
                commandVars, cacheVars, calls, files>>

\* findNearestCsproj: let currentDir = path.dirname(filePath)
EnterFind ==
    /\ pc = "call"
    /\ currentDir' = dirname(input)
    /\ pc' = "find"
    /\ UNCHANGED result
    /\ NamespaceFrame

\* one round of the while loop that finds no project file
WalkUp ==
    /\ pc = "find"
    /\ ~AtRoot(currentDir)
    /\ ~HasCsproj(currentDir)
    /\ currentDir' = dirname(currentDir)
    /\ UNCHANGED <<pc, result>>
    /\ NamespaceFrame

\* findNearestCsproj returns: the project file's directory, or undefined
FindReturns ==
    /\ pc = "find"
    /\ \/ /\ AtRoot(currentDir)
          /\ result' = <<>>
       \/ /\ ~AtRoot(currentDir)
          /\ HasCsproj(currentDir)
          /\ result' = <<currentDir>>
    /\ pc' = "found"
    /\ UNCHANGED currentDir
    /\ NamespaceFrame

\* calculateNamespace from its line 94 on
NamespaceReturns ==
    /\ pc = "found"
    /\ result' = IF result = <<>> THEN <<>> ELSE NamespaceFrom(result[1], input)
    /\ pc' = "returned"
    /\ UNCHANGED currentDir
    /\ NamespaceFrame

NamespaceNext == EnterFind \/ WalkUp \/ FindReturns \/ NamespaceReturns

NamespaceSpec == NamespaceInit /\ [][NamespaceNext]_vars

\* the loop of findNearestCsproj keeps running while it can
NamespaceLiveSpec == NamespaceSpec /\ WF_vars(NamespaceNext)

(***************************************************************************)
(* Reading a text back: the properties (or positional parameters) a text   *)
(* declares, in order.  This is the reader's view of the C# text, not the  *)
(* converter's regular expressions: a type may span several tokens.        *)
(***************************************************************************)

\* the tokens from index i to the end of its line
RECURSIVE RestOfLine(_, _)
RestOfLine(text, i) ==
    IF i > Len(text) \/ text[i] = NL THEN <<>>
    ELSE <<text[i]>> \o RestOfLine(text, i + 1)

\* the attribute on the line above the "public" at index pub: <<name, key>>
AttributeAbove(text, pub) ==
    IF pub >= 3 /\ text[pub - 1] = NL /\ IsAttribute(text[pub - 2])
    THEN <<text[pub - 2][2], AttributeKey(text[pub - 2])>>
    ELSE <<>>

\* one positional parameter, from its tokens
ReadParameter(toks) ==
    IF Len(toks) >= 4 /\ toks[1] = <<"[", "property", ":">>
    THEN [name |-> Last(toks), type |-> SubSeq(toks, 3, Len(toks) - 1),
          attr |-> <<toks[2][1], SubSeq(toks[2], 4, Len(toks[2]) - 3)>>,
          init |-> <<>>, positional |-> TRUE]
    ELSE [name |-> Last(toks), type |-> Front(toks, 1), attr |-> <<>>,
          init |-> <<>>, positional |-> TRUE]

\* Declared from index i on; pub is the index of the last "public" seen, cur
\* the tokens of the positional parameter being read, inRecord whether i is
\* inside a positional parameter list
RECURSIVE DeclaredFrom(_, _, _, _, _)
DeclaredFrom(text, i, pub, inRecord, cur) ==
    IF i > Len(text) THEN <<>>
    ELSE LET t == text[i] IN
      IF inRecord
      THEN IF Len(t) >= 3 /\ t[Len(t) - 1] = ")" /\ t[Len(t)] = ";"
           THEN <<ReadParameter(Append(cur, Front(t, 2)))>>
                \o DeclaredFrom(text, i + 1, 0, FALSE, <<>>)
           ELSE IF Len(t) >= 2 /\ Last(t) = "," /\ IsWordAtom(t[1]) /\ Len(t) = 2
           THEN <<ReadParameter(Append(cur, Front(t, 1)))>>
                \o DeclaredFrom(text, i + 1, 0, TRUE, <<>>)
           ELSE DeclaredFrom(text, i + 1, 0, TRUE, Append(cur, t))
      ELSE IF TokAt(text, i - 1) = <<"record">> /\ Len(t) >= 3 /\ t[2] = "("
           THEN DeclaredFrom(text, i + 1, 0, TRUE, <<SubSeq(t, 3, Len(t))>>)
      ELSE IF t = <<"public">> THEN DeclaredFrom(text, i + 1, i, FALSE, <<>>)
      ELSE IF t = <<"{">> /\ TokAt(text, i + 1) = <<"get", ";">> /\ pub > 0
           THEN << [name |-> text[i - 1], type |-> SubSeq(text, pub + 1, i - 2),
                    attr |-> AttributeAbove(text, pub),
                    init |-> RestOfLine(text, i + 4), positional |-> FALSE] >>
                \o DeclaredFrom(text, i + 1, pub, FALSE, <<>>)
      ELSE DeclaredFrom(text, i + 1, pub, FALSE, <<>>)

Declared(text) == DeclaredFrom(text, 1, 0, FALSE, <<>>)

\* the properties of the document's classes, in rendering order
AllFields(d) == Fields(d) \o (IF HasAddress(Fields(d)) THEN AddressFields ELSE <<>>)

\* the renderer's text of the running call
ArrayType == IF settings.collectionType = "Array" THEN "array" ELSE "list"
Rendered == Render(RootName, Fields(doc), args.serializationAttributes, ArrayType)

(***************************************************************************)
(* Vocabulary of the properties checked below.                             *)
(***************************************************************************)

FrameworkOn == args.serializationAttributes # "none"

\* the field of the document that has the derived name n
HasField(n) == \E k \in 1..Len(AllFields(doc)) : AllFields(doc)[k].name = n
FieldNamed(n) == AllFields(doc)[CHOOSE k \in 1..Len(AllFields(doc)) :
                                   AllFields(doc)[k].name = n]

\* the JSON key equals the derived name, ignoring case
KeyMatchesName(f) == Len(f.key) = 1 /\ toLowerCase(f.key[1]) = toLowerCase(f.name)

\* the value types the specification lists
SpecValueTypes == {"bool", "byte", "sbyte", "short", "ushort", "int", "uint",
                   "long", "ulong", "float", "double", "decimal", "char",
                   "DateTime", "DateTimeOffset", "TimeSpan", "Guid"}

\* a field whose base type is a value type: T or T? with T a listed type
ValueTyped(f) ==
    \/ f.type[1] = "prim" /\ f.type[2] \in SpecValueTypes
    \/ f.type[1] = "opt" /\ f.type[2][1] = "prim" /\ f.type[2][2] \in SpecValueTypes

RECURSIVE HasArray(_)
HasArray(ty) ==
    CASE ty[1] = "arr" -> TRUE
      [] ty[1] \in {"opt", "map"} -> HasArray(ty[2])
      [] OTHER -> FALSE

\* the type of field f as the text should spell it before the nullability stage
SpelledType(f) ==
    convertCollectionType(TypeTokens(f.type, ArrayType), settings.collectionType)

\* a declared type carries the nullable marker
Marked(type) == type # <<>> /\ endsWith(Last(type), "?")

\* a declared type without its nullable marker
Unmarked(type) == Front(type, 1) \o <<Front(Last(type), 1)>>

\* the generic collection spellings a token uses
GenericSpellings == {"List", "IList", "IEnumerable", "IReadOnlyList"}
GenericsIn(t) ==
    { a \in GenericSpellings : \E k \in 1..(Len(t) - 1) : t[k] = a /\ t[k + 1] = "<" }

\* the collection spellings a token of a type uses: the generic ones and T[]
SpellingsIn(t) ==
    GenericsIn(t) \cup (IF \E k \in 1..Len(t) : t[k] = "[]" THEN {"Array"} ELSE {})

\* a token that holds (part of) a quoted string
Quoted(t) == \E k \in 1..Len(t) : t[k] = "\""

(***************************************************************************)
(* Properties.                                                             *)
(***************************************************************************)

\* C1: with a framework enabled and whenDifferent rendering, a property of
\* the final output carries a serialization attribute exactly when its JSON
\* key differs from its derived name ignoring case, whatever its type.
C1_AttributeIffKeyDiffers ==
    (pc = "returned" /\ FrameworkOn /\ ~args.alwaysRenderAttributes) =>
        LET D == Declared(output)
        IN \A k \in 1..Len(D) :
             /\ HasField(D[k].name[1])
             /\ (D[k].attr # <<>>) <=> ~KeyMatchesName(FieldNamed(D[k].name[1]))

\* C2: with a framework enabled and json2csharp.attributeRendering set to
\* "always", every property in the text the paste command inserts carries a
\* serialization attribute.
C2_AlwaysRendersEveryAttribute ==
    (via = "paste" /\ pc = "inserted" /\ settings.serializationAttributes # "none"
       /\ settings.attributeRendering = "always") =>
        LET D == Declared(inserted)
        IN \A k \in 1..Len(D) : D[k].attr # <<>>

\* two serialization attribute lines directly follow one another
StackedAttributes(text) ==
    \E i \in 1..(Len(text) - 2) :
        IsAttribute(text[i]) /\ text[i + 1] = NL /\ IsAttribute(text[i + 2])

C4_OnlyRequestedSpelling ==
    pc = "returned" =>
        /\ \A i \in 1..Len(output) :
             ~Quoted(output[i]) => GenericsIn(output[i]) \subseteq {settings.collectionType}
        /\ LET D == Declared(output)
           IN \A k \in 1..Len(D) :
                /\ \A j \in 1..Len(D[k].type) :
                     SpellingsIn(D[k].type[j]) \subseteq {settings.collectionType}
                /\ (HasField(D[k].name[1]) /\ HasArray(FieldNamed(D[k].name[1]).type)) =>
                     \E j \in 1..Len(D[k].type) :
                         settings.collectionType \in SpellingsIn(D[k].type[j])

\* C4 witness: a nested array, substituted, marked nullable and moved into a
\* positional record.
C4_Witness ==
    /\ pc = "returned"
    /\ settings.collectionType = "IReadOnlyList"
    /\ settings.typeStyle = "recordPositional"
    /\ args.nullableStyle = "nullable"
    /\ \E k \in 1..Len(Declared(output)) :
         Declared(output)[k].type =
           << <<"IReadOnlyList", "<", "IReadOnlyList", "<", "long", ">", ">", "?">> >>

\* C5: collection-type substitution leaves class names, property names and
\* the quoted JSON key of every attribute as the renderer wrote them.
C5_SubstitutionKeepsNamesAndKeys ==
    (pc = "collections" /\ settings.collectionType # "Array") =>
        LET D == Declared(output)
        IN /\ Len(D) = Len(AllFields(doc))
           /\ \A k \in 1..Len(D) :
                /\ D[k].name = <<AllFields(doc)[k].name>>
                /\ D[k].attr # <<>> => D[k].attr[2] = AllFields(doc)[k].key
           /\ \A i \in 2..Len(output) :
                output[i - 1] = <<"class">> => output[i] \in {<<RootName>>, <<"Address">>}

\* C6: in the final output no property is both marked nullable and given a
\* default initializer.
C6_NullableExcludesInitializer ==
    pc = "returned" =>
        LET D == Declared(output)
        IN \A k \in 1..Len(D) : ~(Marked(D[k].type) /\ D[k].init # <<>>)

\* C6 witness: the defaults strategy ran over a text with a nullable property
\* and gave another property an initializer.
C6_Witness ==
    /\ pc = "returned"
    /\ args.nullableStyle = "defaults"
    /\ \E k \in 1..Len(Declared(output)) : Marked(Declared(output)[k].type)
    /\ \E k \in 1..Len(Declared(output)) : Declared(output)[k].init # <<>>

\* C7: a property whose base type is one of the listed value types keeps its
\* type without a new nullable marker and gets no default initializer, after
\* the nullability stage and in the final output.
C7_ValueTypesExempt ==
    pc \in {"nullability", "returned"} =>
        LET D == Declared(output)
        IN \A k \in 1..Len(D) :
             (HasField(D[k].name[1]) /\ ValueTyped(FieldNamed(D[k].name[1]))) =>
                 /\ D[k].type = TypeTokens(FieldNamed(D[k].name[1]).type, ArrayType)
                 /\ D[k].init = <<>>

\* C7 witness: a nullability strategy ran over a text with a value-typed
\* property and changed another property.
C7_Witness ==
    /\ pc = "nullability"
    /\ args.nullableStyle # "none"
    /\ \E k \in 1..Len(Declared(output)) :
         Declared(output)[k].type = << <<"long">> >>
    /\ \E k \in 1..Len(Declared(output)) :
         Marked(Declared(output)[k].type) \/ Declared(output)[k].init # <<>>

\* C8: under the nullable strategy every property of a reference type that is
\* not already marked gets "?" appended to its type, map types included.
C8_NullableMarksEveryReferenceType ==
    (pc = "nullability" /\ args.nullableStyle = "nullable") =>
        LET D == Declared(output)
        IN /\ Len(D) = Len(AllFields(doc))
           /\ \A k \in 1..Len(D) :
                ~ValueTyped(AllFields(doc)[k]) =>
                    /\ Marked(D[k].type)
                    /\ Unmarked(D[k].type) = SpelledType(AllFields(doc)[k])

\* the initializer the defaults strategy is specified to give a reference type
SpecInitializer(f) ==
    IF f.type = TString THEN << <<"=">>, <<"string", ".", "Empty", ";">> >>
    ELSE IF f.type[1] = "arr" THEN << <<"=">>, <<"[]", ";">> >>
    ELSE IF f.type = TObject THEN << <<"=">>, <<"new">>, <<"object", "(", ")", ";">> >>
    ELSE << <<"=">>, <<"default", "!", ";">> >>

\* C9: under the defaults strategy every property of a reference type gets
\* the initializer of its type: string.Empty, [], new object() or default!.
C9_DefaultsFitEveryReferenceType ==
    (pc = "nullability" /\ args.nullableStyle = "defaults") =>
        LET D == Declared(output)
        IN /\ Len(D) = Len(AllFields(doc))
           /\ \A k \in 1..Len(D) :
                ~ValueTyped(AllFields(doc)[k]) =>
                    D[k].init = SpecInitializer(AllFields(doc)[k])

\* C10: addDefaultValues skips properties that already have an initializer:
\* applied to its own result it changes nothing, and no property carries two
\* initializers.
C10_AddDefaultsIdempotent ==
    (pc = "nullability" /\ args.nullableStyle = "defaults") =>
        /\ addDefaultValues(output) = output
        /\ \A k \in 1..Len(Declared(output)) : Len(Declared(output)[k].init) <= 3

\* the classes the renderer declares for the running call
DeclaredClasses ==
    {RootName} \cup (IF HasAddress(Fields(doc)) THEN {"Address"} ELSE {})

\* C11: the final output has no 'partial' modifier, and every class the
\* renderer declared appears as 'public class X' or 'public record X', under
\* every type style.
C11_NoPartialInFinalOutput ==
    pc = "returned" =>
        /\ \A i \in 1..Len(output) : output[i] # <<"partial">>
        /\ \A n \in DeclaredClasses :
             \E i \in 1..(Len(output) - 2) :
                 /\ output[i] = <<"public">>
                 /\ output[i + 1] \in {<<"class">>, <<"record">>}
                 /\ output[i + 2][1] = n

\* C11 witness: a conversion of two partial classes has returned.
C11_Witness ==
    /\ pc = "returned"
    /\ DeclaredClasses = {RootName, "Address"}
    /\ \E i \in 1..Len(Rendered) : Rendered[i] = <<"partial">>

\* a text with the keyword of each declaration 'public class X' changed to
\* 'record' and nothing else
RECURSIVE KeywordRenamedFrom(_, _)
KeywordRenamedFrom(text, i) ==
    IF i > Len(text) THEN <<>>
    ELSE (IF /\ text[i] = <<"class">>
             /\ TokAt(text, i - 1) = <<"public">>
             /\ IsWord(TokAt(text, i + 1))
          THEN << <<"record">> >> ELSE <<text[i]>>)
         \o KeywordRenamedFrom(text, i + 1)

\* C12: with recordProperties the type-style stage changes only the keyword
\* of each declaration, 'public class X' to 'public record X'; property
\* lines, attributes, markers and initializers stay as they were.
C12_RecordPropertiesRenamesKeywordOnly ==
    pc = "renamed" => output = KeywordRenamedFrom(input, 1)

\* a spelled type with the nullable marker appended
WithMarker(type) == Front(type, 1) \o <<Append(Last(type), "?")>>

\* the positional-record conversion has run on the text
PositionalDone == pc = "typeStyle" /\ settings.typeStyle = "recordPositional"

\* the classes of the running call that have a property
ClassesWithFields ==
    (IF Fields(doc) # <<>> THEN {RootName} ELSE {})
    \cup (IF HasAddress(Fields(doc)) THEN {"Address"} ELSE {})

\* C13: with recordPositional every class with a property becomes one line
\* 'public record Name(...);' whose parameters are the class's properties,
\* each once, in order, with type and name, whatever the type; no property
\* block remains.
C13_PositionalKeepsEveryField ==
    PositionalDone =>
        LET D == Declared(output)
        IN /\ Len(D) = Len(AllFields(doc))
           /\ \A k \in 1..Len(D) :
                /\ D[k].positional
                /\ D[k].name = <<AllFields(doc)[k].name>>
                /\ D[k].type \in {SpelledType(AllFields(doc)[k]),
                                  WithMarker(SpelledType(AllFields(doc)[k]))}
           /\ \A i \in 1..Len(output) : output[i] # <<"get", ";">>
           /\ \A n \in ClassesWithFields :
                \E i \in 1..(Len(output) - 2) :
                    /\ output[i] = <<"public">> /\ output[i + 1] = <<"record">>
                    /\ output[i + 2][1] = n /\ output[i + 2][2] = "("

\* C14: positional-record conversion turns a property with a serialization
\* attribute into a parameter with '[property: Attr("key")]' of the same
\* attribute name and key, and a property without one into a parameter
\* without one; no attribute moves to another property.
C14_PositionalCarriesAttributes ==
    [][(pc = "partial" /\ settings.typeStyle = "recordPositional") =>
          LET before == Declared(output)
              after  == Declared(output')
          IN /\ \A k \in 1..Len(before) :
                  \E j \in 1..Len(after) :
                      /\ after[j].name = before[k].name
                      /\ after[j].positional
                      /\ after[j].attr = before[k].attr
             /\ \A j \in 1..Len(after) :
                  \E k \in 1..Len(before) :
                      /\ after[j].name = before[k].name
                      /\ after[j].attr = before[k].attr]_vars

\* the texts of the classes of a document, 'partial' removed
ClassTexts == { removePartial(t) : t \in RenderedTexts }

\* C15: positional-record conversion leaves a class without properties as
\* it was, and converts the other declarations of the text as it converts
\* them without that class.
C15_EmptyClassLeftAlone ==
    pc = "positional" =>
        /\ input = EmptyClass => output = input
        /\ \A t \in ClassTexts :
             /\ input = EmptyClass \o <<NL>> \o t =>
                  output = EmptyClass \o <<NL>> \o convertToPositionalRecords(t)
             /\ input = t \o <<NL>> \o EmptyClass =>
                  output = convertToPositionalRecords(t) \o <<NL>> \o EmptyClass

\* C15 witness: a text with a class without properties and a class that was
\* converted to a record.
C15_Witness ==
    /\ pc = "positional"
    /\ \E t \in ClassTexts : input = EmptyClass \o <<NL>> \o t
    /\ \E i \in 1..Len(output) : output[i] = <<"record">>
    /\ \E i \in 2..Len(output) : output[i - 1] = <<"class">> /\ output[i] = <<"Empty">>

\* the lines of a text
RECURSIVE LinesFrom(_, _, _)
LinesFrom(text, i, cur) ==
    IF i > Len(text) THEN <<cur>>
    ELSE IF text[i] = NL THEN <<cur>> \o LinesFrom(text, i + 1, <<>>)
    ELSE LinesFrom(text, i + 1, Append(cur, text[i]))

LinesOf(text) == LinesFrom(text, 1, <<>>)

IsUsingLine(l) == l # <<>> /\ l[1] = <<"using">>
IsNamespaceLine(l) == l # <<>> /\ l[1] = <<"namespace">>
IsDeclarationLine(l) == l # <<>> /\ l[1] = <<"public">>

\* the import lines in lexicographic order
UsingOrder ==
    << << <<"using">>, <<"Newtonsoft", ".", "Json", ";">> >>,
       << <<"using">>, <<"System", ".", "Collections", ".", "Generic", ";">> >>,
       << <<"using">>, <<"System", ".", "Text", ".", "Json", ".", "Serialization", ";">> >> >>

UsingRank(l) == CHOOSE r \in 1..Len(UsingOrder) : UsingOrder[r] = l

UsingGeneric == UsingOrder[2]

\* the text holds the two-token line l
HasLine(l) ==
    \E i \in 1..(Len(output) - 1) :
        /\ output[i] = l[1] /\ output[i + 1] = l[2]
        /\ TokAt(output, i - 1) \in {<<>>, NL}
        /\ TokAt(output, i + 2) \in {<<>>, NL}

\* a generic collection type is spelled in the text, outside quoted keys
HasGenericCollection ==
    \E i \in 1..Len(output) : ~Quoted(output[i]) /\ GenericsIn(output[i]) # {}

\* C17: with a namespace, 'using System.Collections.Generic;' is in the
\* final output exactly when collectionType is not Array and the output
\* spells a generic collection type.
C17_GenericUsingIffCollections ==
    (pc = "returned" /\ args.namespace # <<>>) =>
        (HasLine(UsingGeneric) <=>
            (settings.collectionType # "Array" /\ HasGenericCollection))

\* the import line of a framework
UsingOf(framework) ==
    IF framework = "SystemTextJson" THEN UsingOrder[3] ELSE UsingOrder[1]

\* a serialization attribute is present in the text
AttributeInText ==
    \E i \in 1..Len(output) : \E k \in 1..Len(output[i]) : output[i][k] \in AttributeNames

C19_NoNamespaceNoUsing ==
    (via = "paste" /\ pc = "inserted"
       /\ (~settings.includeNamespace \/ args.namespace = <<>>)) =>
        \A i \in 1..Len(inserted) : inserted[i] \notin {<<"namespace">>, <<"using">>}

\* C19 witness: the paste command inserted a text with serialization
\* attributes, includeNamespace on and no namespace found.
C19_Witness ==
    /\ via = "paste" /\ pc = "inserted"
    /\ settings.includeNamespace /\ args.namespace = <<>>
    /\ \E i \in 1..Len(inserted) : IsAttribute(inserted[i])

\* C20: a root name that is not a valid identifier never reaches inference:
\* whenever the paste command has called convertJsonToCSharp, the root class
\* name it passed is one validateInput accepts, whether it was typed at the
\* prompt or taken from the rootClassName setting.
C20_InvalidRootNameNeverReachesInference ==
    (via = "paste" /\ pc \notin {"idle", "readText", "prompt", "ended"}) =>
        validateInput(args.rootClassName) = "null"

\* how many entries of a trace are in a set
RECURSIVE Count(_, _)
Count(t, S) ==
    IF t = <<>> THEN 0
    ELSE (IF t[1] \in S THEN 1 ELSE 0) + Count(Tail(t), S)

\* C21: when convertJsonToCSharp rejected, the paste command ends having
\* inserted nothing, having shown exactly one error message and having called
\* the conversion once; nothing further happens in that invocation.
C21_FailedConversionInsertsNothing ==
    (pc = "ended" /\ Count(trace, {"convertJsonToCSharp"}) > 0) =>
        /\ inserted = <<>>
        /\ Count(trace, {"insert"}) = 0
        /\ Count(trace, ErrorMessages) = 1
        /\ Count(trace, {"convertJsonToCSharp"}) = 1
        /\ ~ENABLED CommandNext

\* C21 witness: a conversion was called, rejected, and the command ended with
\* the message of its catch block.
C21_Witness ==
    /\ pc = "ended"
    /\ Count(trace, {"convertJsonToCSharp"}) = 1
    /\ trace[Len(trace)] = "Failed to convert JSON"

\* The JSON grammar (RFC 8259) over the atoms, as the texts it generates:
\* values separated by commas, written without blanks
RECURSIVE JsonLists(_, _, _)
JsonLists(V, k, n) ==
    IF k = 0 THEN { <<>> }
    ELSE LET shorter == JsonLists(V, k - 1, n)
         IN shorter \cup
            { x \in { IF l = <<>> THEN v ELSE l \o <<",">> \o v : l \in shorter, v \in V } :
                Len(x) <= n }

\* members separated by commas, written without blanks
RECURSIVE JsonMemberLists(_, _, _)
JsonMemberLists(V, k, n) ==
    IF k = 0 THEN { <<>> }
    ELSE LET shorter == JsonMemberLists(V, k - 1, n)
         IN shorter \cup
            { x \in { (IF l = <<>> THEN <<>> ELSE l \o <<",">>) \o <<STR, ":">> \o v :
                        l \in shorter, v \in V } :
                Len(x) <= n }

\* the numbers of at most n digits
RECURSIVE JsonNumbers(_)
JsonNumbers(n) ==
    IF n = 0 THEN {} ELSE JsonNumbers(n - 1) \cup { [i \in 1..n |-> NUM] }

\* the values of nesting depth at most d and at most n atoms, without blanks
RECURSIVE JsonValues(_, _)
JsonValues(d, n) ==
    IF d = 0 THEN { <<STR>>, <<NULL>> } \cup JsonNumbers(n)
    ELSE LET V == JsonValues(d - 1, n)
         IN V \cup { <<"[">> \o l \o <<"]">> : l \in JsonLists(V, n, n - 2) }
              \cup { <<"{">> \o m \o <<"}">> : m \in JsonMemberLists(V, n, n - 2) }

\* a text without its blanks
RECURSIVE WithoutBlanks(_)
WithoutBlanks(s) ==
    IF s = <<>> THEN <<>>
    ELSE (IF s[1] = WS THEN <<>> ELSE <<s[1]>>) \o WithoutBlanks(Tail(s))

\* blanks stand between two digits of the text
BlankInNumber(s) ==
    \E i \in 1..Len(s) :
        /\ s[i] = NUM
        /\ LET j == SkipWs(s, i + 1) IN j > i + 1 /\ j <= Len(s) /\ s[j] = NUM

\* the JSON values of at most MaxJsonLen atoms, without blanks
JsonGrammar == JsonValues(MaxJsonLen, MaxJsonLen)

\* s is a JSON text: blanks are allowed between tokens only
IsJsonText(s) ==
    /\ ~BlankInNumber(s)
    /\ WithoutBlanks(s) \in JsonGrammar

\* C22: validateJson returns isValid = true exactly when the trimmed input is
\* non-empty, starts with { or [ and is a JSON text; a valid result carries no
\* error message and an invalid one carries a non-empty one.
C22_ValidateJsonContract ==
    pc = "validated" =>
        LET t == trimBlanks(input)
        IN /\ result.isValid <=> (t # <<>> /\ t[1] \in {"{", "["} /\ IsJsonText(t))
           /\ result.isValid => result.error = ""
           /\ ~result.isValid => result.error # ""

\* C22 witness: a text with a blank inside and a value in it was found valid.
C22_Witness ==
    /\ pc = "validated"
    /\ result.isValid
    /\ \E i \in 2..(Len(input) - 1) : input[i] = WS
    /\ \E i \in 1..Len(input) : input[i] \in {STR, NUM, NULL}

\* the deepest of the file's directory and its parents that holds a project
\* file, as a number of folders below "/" or "."
NearestDepth == CHOOSE k \in files.depths : \A j \in files.depths : j <= k

\* the folders between the nearest project file's directory and the file
FoldersBelowProject ==
    LET fileDir == dirname(input)
    IN SubSeq(fileDir.names, NearestDepth + 1, Len(fileDir.names))

\* a segment of a namespace: an identifier, with or without @ before it
IsSegment(seg) ==
    \/ isValidCSharpIdentifier(seg)
    \/ seg # <<>> /\ seg[1] = "@" /\ isValidCSharpIdentifier(Tail(seg))

\* C23: every string calculateNamespace returns is non-empty with valid
\* identifiers (optionally prefixed with @) between its dots; it returns
\* undefined when no project file is found and when a part of a folder name
\* between the project file's directory and the file is not an identifier.
C23_NamespaceIsValidOrUndefined ==
    pc = "returned" =>
        /\ result # <<>> =>
             LET segs == SplitDots(result)
             IN \A i \in 1..Len(segs) : IsSegment(segs[i])
        /\ files.depths = {} => result = <<>>
        /\ (files.depths # {} /\
            \E i \in 1..Len(FolderParts(FoldersBelowProject)) :
                ~isValidCSharpIdentifier(FolderParts(FoldersBelowProject)[i]))
           => result = <<>>

\* C24: a folder-derived segment of the returned namespace is the folder part
\* with @ before it exactly when the part is a C# reserved keyword, and the
\* part unchanged otherwise.
C24_AtPrefixExactlyForKeywords ==
    (pc = "returned" /\ result # <<>> /\ files.depths # {}) =>
        LET parts == FolderParts(FoldersBelowProject)
            segs == SplitDots(result)
            n == Len(parts)
        IN (\A i \in 1..n : isValidCSharpIdentifier(parts[i])) =>
              /\ Len(segs) >= n
              /\ \A i \in 1..n :
                    segs[Len(segs) - n + i] =
                        IF parts[i][1] \in CSHARP_KEYWORDS
                        THEN <<"@">> \o parts[i] ELSE parts[i]

\* the directory findNearestCsproj is to return: <<>> is undefined
ClosestCsproj ==
    IF files.depths = {} THEN <<>>
    ELSE << [abs |-> input.abs,
             names |-> SubSeq(dirname(input).names, 1, NearestDepth)] >>

\* C28: findNearestCsproj terminates for every file path, and what it returns
\* is the project file of the closest directory, from the file's own
\* directory up through its parents, that holds one, or undefined when none
\* of them does.
C28_FindNearestCsprojTerminatesWithClosest ==
    /\ <>(pc \in {"found", "returned"})
    /\ [](pc = "found" => result = ClosestCsproj)

C26_ModulesLoadedAtMostOnce ==
    /\ requires.quicktypeCore <= 1
    /\ requires.csharpLang <= 1
    /\ (quicktypeCore # "null") <=> (requires.quicktypeCore = 1)
    /\ (csharpLang # "null") <=> (requires.csharpLang = 1)

\* C26 witness: all callers are in flight at once, one suspended at quicktype
\* and another at addSource, and the modules are loaded.
C26_Witness ==
    /\ pc = "calls"
    /\ \A c \in 1..MaxCalls : calls[c] # "idle"
    /\ \E c \in 1..MaxCalls : calls[c] = "quicktype"
    /\ \E c \in 1..MaxCalls : calls[c] = "addSource"
    /\ quicktypeCore # "null" /\ csharpLang # "null"

\* the index of the first entry e of a trace, 0 when there is none
First(t, e) ==
    IF \E i \in 1..Len(t) : t[i] = e
    THEN CHOOSE i \in 1..Len(t) : t[i] = e /\ \A j \in 1..(i - 1) : t[j] # e
    ELSE 0

\* C27: in every run of the paste command convertJsonToCSharp is called only
\* with an active editor, a non-blank clipboard that validateJson accepts and
\* a root name obtained from the setting or from the accepted prompt, after
\* the clipboard was read and validated; when the prompt is cancelled nothing
\* is converted, inserted or shown; and there is at most one insertion, made
\* only after the conversion returned, of the text it returned.
C27_PasteCommandOrder ==
    LET converted == First(trace, "convertJsonToCSharp")
        prompted  == First(trace, "showInputBox")
        insertion == First(trace, "insert")
    IN /\ converted > 0 =>
            /\ editor
            /\ trimBlanks(clipboard) # <<>>
            /\ \A message \in ParseMessages : validateJson(clipboard, message).isValid
            /\ 0 < First(trace, "readText")
            /\ First(trace, "readText") < First(trace, "validateJson")
            /\ First(trace, "validateJson") < converted
            /\ IF settings.alwaysUseRootClassName
               THEN prompted = 0 /\ args.rootClassName = settings.rootClassName
               ELSE /\ 0 < prompted /\ prompted < converted
                    /\ validateInput(args.rootClassName) = "null"
       /\ (pc = "ended" /\ prompted > 0 /\ converted = 0) =>
            /\ trace[Len(trace)] = "showInputBox"
            /\ Count(trace, ErrorMessages) = 0
            /\ insertion = 0
            /\ inserted = <<>>
       /\ Count(trace, {"insert"}) <= 1
       /\ Count(trace, {"convertJsonToCSharp"}) <= 1
       /\ insertion > 0 =>
            /\ 0 < converted /\ converted < insertion
            /\ pc = "inserted" /\ inserted = output
            /\ Count(trace, ErrorMessages) = 0
       /\ insertion = 0 => inserted = <<>>

\* C27 witness: the user was asked for the name, accepted one, and the
\* converted text was inserted.
C27_Witness ==
    /\ pc = "inserted"
    /\ First(trace, "showInputBox") > 0
    /\ args.rootClassName = OrderName
    /\ trace[Len(trace)] = "insert"

\* the stages after the nullability stage, applied to the text it leaves
Finish(text) ==
    LET typed == IF settings.typeStyle = "recordPositional"
                 THEN convertToPositionalRecords(removePartial(text))
                 ELSE IF settings.typeStyle = "recordProperties"
                 THEN convertToRecordProperties(removePartial(text))
                 ELSE removePartial(text)
        withNs == IF args.namespace # <<>>
                  THEN prependNamespace(typed, args.namespace) ELSE typed
        withUsing == IF args.serializationAttributes # "none" /\ args.namespace # <<>>
                     THEN prependUsing(withNs, args.serializationAttributes) ELSE withNs
    IN trim(withUsing)

\* C29: with typeStyle recordPositional the default-initializer strategy
\* leaves no trace: whenever the nullability stage runs addDefaultValues, the
\* final output computed from the text it produces is the final output
\* computed from the text it was given, which is what a conversion without a
\* nullability strategy returns.
C29_DefaultsLeaveNoTraceInPositionalRecords ==
    [][(/\ pc = "collections"
        /\ settings.typeStyle = "recordPositional"
        /\ args.nullableStyle = "defaults")
       => Finish(output') = Finish(output)]_vars

\* C30: the nullability stage and the removal of 'partial' commute: on every
\* text the renderer returns, for either nullability strategy, removing
\* 'partial' first and applying the strategy second gives the text the code
\* produces by applying the strategy first and removing 'partial' second.
C30_PartialRemovalCommutesWithNullability ==
    pc = "rendered" =>
        /\ addNullableAnnotations(removePartial(output))
               = removePartial(addNullableAnnotations(output))
        /\ addDefaultValues(removePartial(output))
               = removePartial(addDefaultValues(output))

====
